---- MODULE Spec2Model ----
(***************************************************************************)
(* Column-lineage extraction for SSIS packages.                            *)
(*                                                                         *)
(* Part I   the LineageID propagator of src/app.py                         *)
(*          (SSISMetadataExtractor._trace_column_lineage_topology,         *)
(*          get_column_lineage, get_dataflow_sources, get_unused_columns). *)
(* Part II  the SQL statement resolver of src/sql_parser.py                *)
(*          (EnhancedSQLParser.parse_sql_deep and its helpers,             *)
(*          extract_join_conditions), on statement texts that are strings. *)
(*                                                                         *)
(* Three specifications share the variables:                               *)
(*   Spec      the propagator run on a package (Part I);                   *)
(*   SpecSQL   calls of parse_sql_deep and extract_join_conditions on one  *)
(*             parser instance, whose cache lives across the calls;        *)
(*   SpecText  one call of a helper method of the parser on a text.        *)
(*                                                                         *)
(* A package is a sequence of dataflow tasks; a task is its components in  *)
(* document order and its paths in document order.  Absent XML attributes  *)
(* and Python's None are the string None.                                  *)
(***************************************************************************)
EXTENDS Integers, Sequences, FiniteSets, TLC

None == "None"

(***************************************************************************)
(* Generic helpers                                                         *)
(***************************************************************************)
Range(s) == {s[i] : i \in DOMAIN s}

RECURSIVE SeqOfIdx(_)
\* the elements of a finite set of integers in increasing order
SeqOfIdx(S) ==
  IF S = {} THEN <<>>
  ELSE LET m == CHOOSE a \in S : \A b \in S : a <= b
       IN <<m>> \o SeqOfIdx(S \ {m})

RECURSIVE FlatMap(_, _)
\* concatenation of Op(s[1]), Op(s[2]), ...
FlatMap(Op(_), s) ==
  IF s = <<>> THEN <<>> ELSE Op(Head(s)) \o FlatMap(Op, Tail(s))

\* first index of s satisfying P, 0 when there is none (Python next(..., None))
FirstIdx(P(_), s) ==
  IF \E i \in DOMAIN s : P(s[i])
  THEN CHOOSE i \in DOMAIN s : P(s[i]) /\ \A j \in 1..(i-1) : ~P(s[j])
  ELSE 0

\* dict assignment d[k] = v
Put(d, k, v) == (k :> v) @@ d

EmptyMap == <<>>

(***************************************************************************)
(* Part II.  The SQL statement resolver of src/sql_parser.py.              *)
(*                                                                         *)
(* Texts are strings; positions are Python's, counted from 0.  Loops over  *)
(* a text are written with While and Least, which halve the range they     *)
(* work on, so that a statement of several hundred characters is           *)
(* evaluated with a recursion depth logarithmic in its length.             *)
(***************************************************************************)
Min(a, b) == IF a <= b THEN a ELSE b
Max(a, b) == IF a >= b THEN a ELSE b

\* Do([x \in {value} |-> body]) is body with x naming value, as after the
\* assignment x = value: value is computed once, before body
Do(assignment) == assignment[CHOOSE value \in DOMAIN assignment : TRUE]

\* the least j in lo..hi with P(j), hi + 1 when there is none
Least(P(_), lo, hi) ==
  IF \E j \in lo..hi : P(j)
  THEN CHOOSE j \in lo..hi : P(j) /\ \A k \in lo..(j - 1) : ~P(k)
  ELSE hi + 1

\* the greatest j in lo..hi with P(j), lo - 1 when there is none
Greatest(P(_), lo, hi) ==
  IF \E j \in lo..hi : P(j)
  THEN CHOOSE j \in lo..hi : P(j) /\ \A k \in (j + 1)..hi : ~P(k)
  ELSE lo - 1

RECURSIVE Iterate(_, _, _, _)
\* st after at most 2^k rounds of "while Cond(st): st = Step(st)"
Iterate(Step(_), Cond(_), st, k) ==
  Do([now \in {st} |->
    IF ~Cond(now) THEN now
    ELSE IF k = 0 THEN Step(now)
    ELSE Iterate(Step, Cond, Iterate(Step, Cond, now, k - 1), k - 1)])

RECURSIVE Power(_)
Power(k) == IF k = 0 THEN 1 ELSE 2 * Power(k - 1)

RECURSIVE Grow(_, _, _, _, _)
\* the rounds in runs of 1, 2, 4, ... rounds, until Cond fails or rounds is used up
Grow(Step(_), Cond(_), st, k, rounds) ==
  Do([now \in {st} |->
    IF rounds <= 0 \/ ~Cond(now) THEN now
    ELSE Grow(Step, Cond, Iterate(Step, Cond, now, k), k + 1, rounds - Power(k))])

\* "while Cond(st): st = Step(st)" for a loop of at most rounds rounds
While(Step(_), Cond(_), st, rounds) == Grow(Step, Cond, st, 0, rounds)

\* s[a:b] and s[i] for 0 <= a; a character is a string of length 1, and
\* At is "" beyond the end of s
Slice(s, a, b) == SubSeq(s, a + 1, Min(b, Len(s)))
From(s, a) == Slice(s, a, Len(s))
At(s, i) == IF i >= 0 /\ i < Len(s) THEN SubSeq(s, i + 1, i + 1) ELSE ""
Chars(s) == [i \in 1..Len(s) |-> SubSeq(s, i, i)]

LowerLetters == Chars("abcdefghijklmnopqrstuvwxyz")
UpperLetters == Chars("ABCDEFGHIJKLMNOPQRSTUVWXYZ")
Digits == {"0", "1", "2", "3", "4", "5", "6", "7", "8", "9"}
\* tab, newline, return and the printable ASCII characters (the grave accent
\* excepted) in code order
Ascii ==
  Chars("\t\n\r !\"#$%&'()*+,-./0123456789:;<=>?@ABCDEFGHIJKLMNOPQRSTUVWXYZ[\\]^_abcdefghijklmnopqrstuvwxyz{|}~")
CharCode(c) == CHOOSE k \in DOMAIN Ascii : Ascii[k] = c

LowerSet == {LowerLetters[k] : k \in 1..26}
UpperSet == {UpperLetters[k] : k \in 1..26}
WhiteSpace == {" ", "\t", "\n", "\r"}
\* the upper-case letter of each lower-case letter
ToUpper == [c \in LowerSet |-> UpperLetters[CHOOSE k \in 1..26 : LowerLetters[k] = c]]
IsLower(c) == c \in LowerSet
IsUpper(c) == c \in UpperSet
UpperChar(c) == IF c \in LowerSet THEN ToUpper[c] ELSE c
IsAlnum(c) == c \in LowerSet \/ c \in UpperSet \/ c \in Digits
IsWord(c) == IsAlnum(c) \/ c = "_"
IsSpace(c) == c \in WhiteSpace

RECURSIVE Upper(_)
\* str.upper()
Upper(s) ==
  IF Len(s) = 0 THEN ""
  ELSE IF Len(s) = 1 THEN UpperChar(s)
  ELSE Upper(SubSeq(s, 1, Len(s) \div 2)) \o Upper(SubSeq(s, Len(s) \div 2 + 1, Len(s)))

\* str.strip(chars), lstrip, rstrip
StripOf(s, chars) ==
  LET a == Least(LAMBDA j : At(s, j) \notin chars, 0, Len(s) - 1)
      b == Greatest(LAMBDA j : At(s, j) \notin chars, 0, Len(s) - 1)
  IN Slice(s, a, b + 1)
Strip(s) == StripOf(s, WhiteSpace)
LStrip(s) == From(s, Least(LAMBDA j : ~IsSpace(At(s, j)), 0, Len(s) - 1))
RStrip(s) == Slice(s, 0, Greatest(LAMBDA j : ~IsSpace(At(s, j)), 0, Len(s) - 1) + 1)
StripBrackets(s) == StripOf(s, {"[", "]"})

StartsWith(s, p) == Slice(s, 0, Len(p)) = p
EndsWith(s, p) == Len(s) >= Len(p) /\ Slice(s, Len(s) - Len(p), Len(s)) = p

\* str.find(sub, from): -1 when sub does not occur
Find(s, sub, from) ==
  Do([j \in {Least(LAMBDA k : Slice(s, k, k + Len(sub)) = sub, from, Len(s) - Len(sub))} |-> IF j > Len(s) - Len(sub) THEN 0 - 1 ELSE j])
Contains(s, sub) == Find(s, sub, 0) >= 0

\* str.split(sep, 1)
SplitOnce(s, sep) ==
  Do([j \in {Find(s, sep, 0)} |-> IF j < 0 THEN <<s>> ELSE <<Slice(s, 0, j), From(s, j + Len(sep))>>])

\* str.split(sep)[-1]
LastPart(s, sep) ==
  Do([j \in {Greatest(LAMBDA k : Slice(s, k, k + Len(sep)) = sep, 0, Len(s) - Len(sep))} |-> IF j < 0 THEN s ELSE From(s, j + Len(sep))])

RECURSIVE SplitWords(_)
\* str.split()
SplitWords(s) ==
  Do([t \in {LStrip(s)} |->
    Do([e \in {Least(LAMBDA j : IsSpace(At(t, j)), 0, Len(t) - 1)} |->
      IF t = "" THEN <<>> ELSE <<Slice(t, 0, e)>> \o SplitWords(From(t, e))])])

RECURSIVE JoinStr(_, _)
\* sep.join(parts)
JoinStr(parts, sep) ==
  IF parts = <<>> THEN ""
  ELSE IF Len(parts) = 1 THEN parts[1]
  ELSE parts[1] \o sep \o JoinStr(Tail(parts), sep)

\* s.replace(old, '', 1)
RemoveFirst(s, old) ==
  Do([j \in {Find(s, old, 0)} |-> IF j < 0 THEN s ELSE Slice(s, 0, j) \o From(s, j + Len(old))])

\* str.isdigit()
IsDigitStr(s) == s # "" /\ \A j \in 1..Len(s) : SubSeq(s, j, j) \in Digits

\* a < b for strings, by code points
StrLess(a, b) ==
  Do([d \in {Least(LAMBDA j : At(a, j) # At(b, j), 0, Min(Len(a), Len(b)) - 1)} |->
    IF d >= Min(Len(a), Len(b)) THEN Len(a) < Len(b)
    ELSE CharCode(At(a, d)) < CharCode(At(b, d))])

RECURSIVE Sorted(_)
\* sorted(S) for a set of strings
Sorted(S) ==
  IF S = {} THEN <<>>
  ELSE Do([m \in {CHOOSE a \in S : \A b \in S : a = b \/ StrLess(a, b)} |-> <<m>> \o Sorted(S \ {m})])

(***************************************************************************)
(* componentClassID tests.  The code tests substrings of the class id      *)
(* ('Source' in comp_class, ...); ClassHas tabulates, for the class ids    *)
(* used, which of the tested substrings each contains.                     *)
(***************************************************************************)
ClassMarkers(cls) ==
  CASE cls = "Microsoft.OLEDBSource"      -> {"Source"}
    [] cls = "Microsoft.Lookup"           -> {"Lookup"}
    [] cls = "Microsoft.DerivedColumn"    -> {"DerivedColumn"}
    [] cls = "Microsoft.UnionAll"         -> {"UnionAll"}
    [] cls = "Microsoft.DataConvert"      -> {"DataConvert"}
    [] cls = "Microsoft.MergeJoin"        -> {"MergeJoin"}
    [] cls = "Microsoft.Sort"             -> {"Sort"}
    [] cls = "Microsoft.Aggregate"        -> {"Aggregate"}
    [] cls = "Microsoft.OLEDBDestination" -> {"Destination"}
    [] cls = "Microsoft.Pivot"            -> {}
    [] OTHER                              -> {}

ClassHas(cls, marker) == marker \in ClassMarkers(cls)

\* 'Error' not in output_name (get_dataflow_sources)
NameHasError(n) == n \in {"Error Output", "OLE DB Source Error Output"}

(***************************************************************************)
(* The pipeline snapshot: XML elements as records                          *)
(***************************************************************************)
\* <inputColumn lineageId= name= cachedName= externalMetadataColumnId=>;
\* extName is the name of the externalMetadataColumn the id refers to
InCol(lid, name, cached, ext) ==
  [lineageId |-> lid, name |-> name, cachedName |-> cached, extName |-> ext,
   cachedDataType |-> "wstr"]

\* <outputColumn lineageId= name= dataType= length=> with its properties
\* FriendlyExpression (expr, a token sequence), SourceInputColumnLineageID
\* (srcLid), CopyFromReferenceColumn (copyRef); hasExt says that its
\* externalMetadataColumnId names an externalMetadataColumn of the output,
\* extName is that element's name attribute (None when it has none)
OutCol(lid, name, dataType, expr, srcLid) ==
  [lineageId |-> lid, name |-> name, dataType |-> dataType, length |-> None,
   expr |-> expr, srcLid |-> srcLid, copyRef |-> None, hasExt |-> FALSE,
   extName |-> None]

Input(id, cols) == [id |-> id, cols |-> cols]

Output(id, name, cols) == [id |-> id, name |-> name, cols |-> cols]

\* tokens of an SSIS expression: a bracketed name [v], a bare word v, or
\* anything else (operator, number, quoted text, the @ of a variable)
Br(v) == [t |-> "br", v |-> v]
Word(v) == [t |-> "word", v |-> v]
Sym(v) == [t |-> "sym", v |-> v]

\* one entry of the ColumnMap parse_sql_column_sources returns
Prov(table, column, expression) ==
  [source_table |-> table, source_column |-> column, expression |-> expression]

Component(cid, name, cls, inputs, outputs) ==
  [cid |-> cid, name |-> name, cls |-> cls, inputs |-> inputs, outputs |-> outputs,
   sql |-> None, colmap |-> EmptyMap, table_name |-> None, connection |-> "N/A",
   openRowset |-> None, connTable |-> None]

Path(startId, endId) == [startId |-> startId, endId |-> endId]

(***************************************************************************)
(* Task "DFT Main": two sources, a derived column computing [A]+[B2] (and  *)
(* [A]+[Z], where Z is no input column), a sort, and a destination that    *)
(* loads the derived column, the sorted column and column B of the first   *)
(* source.  Its paths are chosen in Init.                                  *)
(***************************************************************************)
MainS1 ==
  [Component("Main\\S1", "S1", "Microsoft.OLEDBSource", <<>>,
     << Output("Main\\S1.Out", "Output",
               << OutCol("L1", "A", "wstr", <<>>, None),
                  OutCol("L2", "B", "wstr", <<>>, None),
                  OutCol("L3", "C", "wstr", <<>>, None) >>) >>)
   EXCEPT !.sql = "SELECT COLA AS A, COLB AS B, COLC AS C FROM T1",
          !.colmap = ("A" :> Prov("T1", "COLA", "COLA AS A"))
                  @@ ("B" :> Prov("T1", "COLB", "COLB AS B"))
                  @@ ("C" :> Prov("T1", "COLC", "COLC AS C"))]

MainS2 ==
  [Component("Main\\S2", "S2", "Microsoft.OLEDBSource", <<>>,
     << Output("Main\\S2.Out", "Output",
               << OutCol("L4", "b2", "wstr", <<>>, None) >>),
        Output("Main\\S2.Err", "Error Output",
               << OutCol("L8", "b2", "wstr", <<>>, None),
                  OutCol("L10", "ErrorCode", "i4", <<>>, None) >>) >>)
   EXCEPT !.sql = "SELECT COLB AS B2 FROM T2",
          !.colmap = ("B2" :> Prov("T2", "COLB", "COLB AS B2"))]

MainX ==
  Component("Main\\X", "X", "Microsoft.DerivedColumn",
     << Input("Main\\X.In",
              << InCol("L1", None, "A", None), InCol("L4", None, "b2", None) >>) >>,
     << Output("Main\\X.Out", "Output",
               << OutCol("L5", "AB", "wstr", <<Br("A"), Sym("+"), Br("B2")>>, None),
                  OutCol("L6", "AZ", "wstr", <<Br("A"), Sym("+"), Br("Z")>>, None) >>) >>)

MainK ==
  Component("Main\\K", "K", "Microsoft.Sort",
     << Input("Main\\K.In", << InCol("L5", None, "AB", None) >>) >>,
     << Output("Main\\K.Out", "Output",
               << OutCol("L7", "AB", "wstr", <<>>, None) >>) >>)

MainD ==
  [Component("Main\\D", "D", "Microsoft.OLEDBDestination",
     << Input("Main\\D.In",
              << InCol("L5", None, "AB", "AB_OUT"), InCol("L7", None, "AB", "AB_SORTED"),
                 InCol("L2", None, "B", None) >>) >>,
     << Output("Main\\D.Err", "Error Output",
               << OutCol("L9", "ErrorCode", "i4", <<>>, None) >>) >>)
   EXCEPT !.openRowset = "[dbo].[Target]"]

MainComponents == << MainS1, MainS2, MainX, MainK, MainD >>

\* the paths a "DFT Main" task may contain: every output of S1, S2, X, K to
\* every input of X, K, D, and one path whose endId is no input of the task
MainCandidatePaths ==
  << Path("Main\\S1.Out", "Main\\X.In"),  Path("Main\\S2.Out", "Main\\X.In"),
     Path("Main\\X.Out", "Main\\K.In"),   Path("Main\\K.Out", "Main\\D.In"),
     Path("Main\\X.Out", "Main\\D.In"),   Path("Main\\K.Out", "Main\\X.In"),
     Path("Main\\S1.Out", "Main\\D.In"),  Path("Main\\S1.Out", "Main\\K.In"),
     Path("Main\\S2.Out", "Main\\K.In"),  Path("Main\\S2.Out", "Main\\D.In"),
     Path("Main\\X.Out", "Main\\X.In"),   Path("Main\\K.Out", "Main\\K.In"),
     Path("Main\\S1.Out", "Main\\Gone.In") >>

(***************************************************************************)
(* Task "DFT Side": a table source and a destination.  Its source is also  *)
(* named S1 and its lineage ids are also L1, L2 (ids are scoped to the     *)
(* task).  The destination column B carries a stale id.                    *)
(***************************************************************************)
SideS1 ==
  [Component("Side\\S1", "S1", "Microsoft.OLEDBSource", <<>>,
     << Output("Side\\S1.Out", "Output",
               << OutCol("L1", "colc", "wstr", <<>>, None) >>) >>)
   EXCEPT !.table_name = "T9"]

SideD ==
  [Component("Side\\D", "D2", "Microsoft.OLEDBDestination",
     << Input("Side\\D.In",
              << InCol("L1", None, "colc", None), InCol("L2", None, "B", None) >>) >>,
     <<>>)
   EXCEPT !.openRowset = "[dbo].[Side]"]

Task(name, comps, paths) == [name |-> name, comps |-> comps, paths |-> paths]

SideTask ==
  Task("DFT Side", << SideS1, SideD >>, << Path("Side\\S1.Out", "Side\\D.In") >>)

\* a task whose source column refers to an externalMetadataColumn without a
\* name while a SqlCommand is present
BadTask ==
  Task("DFT Bad",
       << [Component("Bad\\S1", "S3", "Microsoft.OLEDBSource", <<>>,
             << Output("Bad\\S1.Out", "Output",
                       << [OutCol("L1", "COLC", "wstr", <<>>, None)
                           EXCEPT !.hasExt = TRUE] >>) >>)
           EXCEPT !.sql = "SELECT COLC FROM T9",
                  !.colmap = ("COLC" :> Prov("T9", "COLC", "COLC"))] >>,
       <<>>)

(***************************************************************************)
(* Task "DFT Rules": three sources, a union of them, an aggregate, a       *)
(* derived column, a lookup and a destination; one instance of every       *)
(* transfer rule.  Sources RS1 and RS3 read the same physical column       *)
(* T1.COLA.  With reexpose, the match output of the lookup carries the id  *)
(* L1 of the column it was fed (the lookup re-exposes an upstream id);     *)
(* otherwise it carries an id of its own.                                  *)
(***************************************************************************)
RulesS1 ==
  [Component("Rules\\RS1", "RS1", "Microsoft.OLEDBSource", <<>>,
     << Output("Rules\\RS1.Out", "Output",
               << OutCol("L1", "A", "wstr", <<>>, None),
                  OutCol("L2", "B", "wstr", <<>>, None) >>) >>)
   EXCEPT !.sql = "SELECT COLA AS A, COLB AS B FROM T1",
          !.colmap = ("A" :> Prov("T1", "COLA", "COLA AS A"))
                  @@ ("B" :> Prov("T1", "COLB", "COLB AS B"))]

RulesS2 ==
  [Component("Rules\\RS2", "RS2", "Microsoft.OLEDBSource", <<>>,
     << Output("Rules\\RS2.Out", "Output",
               << OutCol("L3", "A", "wstr", <<>>, None) >>) >>)
   EXCEPT !.table_name = "T2"]

RulesS3 ==
  [Component("Rules\\RS3", "RS3", "Microsoft.OLEDBSource", <<>>,
     << Output("Rules\\RS3.Out", "Output",
               << OutCol("L4", "a", "wstr", <<>>, None),
                  OutCol("L5", "QTY", "i4", <<>>, None) >>) >>)
   EXCEPT !.sql = "SELECT COLA AS A, QTY FROM T1",
          !.colmap = ("A" :> Prov("T1", "COLA", "COLA AS A"))
                  @@ ("QTY" :> Prov("T1", "QTY", "QTY"))]

\* four inputs: two columns, one column, two columns, and one column whose
\* id no component of the task produces
RulesU ==
  Component("Rules\\U", "U", "Microsoft.UnionAll",
     << Input("Rules\\U.In1", << InCol("L1", None, "A", None), InCol("L2", None, "B", None) >>),
        Input("Rules\\U.In2", << InCol("L3", None, "A", None) >>),
        Input("Rules\\U.In3", << InCol("L4", None, "a", None), InCol("L5", None, "QTY", None) >>),
        Input("Rules\\U.In4", << InCol("L99", None, "A", None) >>) >>,
     << Output("Rules\\U.Out", "Output",
               << OutCol("L11", "A", "wstr", <<>>, None),
                  OutCol("L12", "B", "wstr", <<>>, None) >>) >>)

\* output names: an input name, an input cachedName, a cachedName in another
\* case, no input name, and the name of an input whose id is not recorded
RulesG ==
  Component("Rules\\G", "G", "Microsoft.Aggregate",
     << Input("Rules\\G.In",
              << InCol("L11", "A", "A1", None), InCol("L12", None, "B", None),
                 InCol("L98", None, "GONE", None) >>) >>,
     << Output("Rules\\G.Out", "Output",
               << OutCol("L21", "A", "wstr", <<>>, None),
                  OutCol("L22", "A1", "wstr", <<>>, None),
                  OutCol("L23", "b", "wstr", <<>>, None),
                  OutCol("L24", "TOTAL", "i4", <<>>, None),
                  OutCol("L25", "GONE", "wstr", <<>>, None) >>) >>)

\* expressions: a variable only, a column and a variable, a name that is no
\* input column, a number only; the last output column re-exposes the id of
\* the input column A
RulesV ==
  Component("Rules\\V", "V", "Microsoft.DerivedColumn",
     << Input("Rules\\V.In",
              << InCol("L21", None, "A", None), InCol("L23", None, "b", None) >>) >>,
     << Output("Rules\\V.Out", "Output",
               << OutCol("L31", "STAMP", "wstr", <<Sym("@"), Br("User::Var")>>, None),
                  OutCol("L32", "MIX", "wstr",
                         <<Br("A"), Sym("+"), Sym("@"), Br("User::Var")>>, None),
                  OutCol("L33", "LOST", "wstr", <<Br("Z")>>, None),
                  OutCol("L34", "ONE", "i4", <<Word("1")>>, None),
                  OutCol("L21", "A", "wstr", <<>>, None) >>) >>)

RulesLK(reexpose) ==
  [Component("Rules\\LK", "LK", "Microsoft.Lookup",
     << Input("Rules\\LK.In", << InCol("L1", None, "A", None) >>) >>,
     << Output("Rules\\LK.Match", "Lookup Match Output",
               << OutCol(IF reexpose THEN "L1" ELSE "L50", "A", "wstr", <<>>, None),
                  OutCol("L51", "RATE", "r8", <<>>, None) >>) >>)
   EXCEPT !.sql = "SELECT COLA AS A, RATE FROM REF",
          !.colmap = ("A" :> Prov("REF", "COLA", "COLA AS A"))
                  @@ ("RATE" :> Prov("REF", "RATE", "RATE"))]

\* the last two columns carry ids no component produces
RulesD ==
  [Component("Rules\\RD", "RD", "Microsoft.OLEDBDestination",
     << Input("Rules\\RD.In",
              << InCol("L1", None, "A", None),    InCol("L21", None, "A", "A_AGG"),
                 InCol("L23", None, "b", None),   InCol("L24", None, "TOTAL", None),
                 InCol("L31", None, "STAMP", None), InCol("L32", None, "MIX", None),
                 InCol("L33", None, "LOST", None), InCol("L51", None, "RATE", None),
                 InCol("L97", None, "a", None),   InCol("L96", None, "NOPE", None) >>) >>,
     << Output("Rules\\RD.Err", "Error Output",
               << OutCol("L90", "ErrorCode", "i4", <<>>, None) >>) >>)
   EXCEPT !.openRowset = "[dbo].[Out]"]

RulesPaths ==
  << Path("Rules\\LK.Match", "Rules\\RD.In"), Path("Rules\\RS1.Out", "Rules\\U.In1"),
     Path("Rules\\RS2.Out", "Rules\\U.In2"),  Path("Rules\\RS3.Out", "Rules\\U.In3"),
     Path("Rules\\U.Out", "Rules\\G.In"),     Path("Rules\\G.Out", "Rules\\V.In"),
     Path("Rules\\V.Out", "Rules\\RD.In"),    Path("Rules\\RS1.Out", "Rules\\LK.In") >>

RulesTask(reexpose) ==
  [name |-> "DFT Rules",
   comps |-> << RulesS1, RulesS2, RulesS3, RulesU, RulesG, RulesV, RulesLK(reexpose),
                RulesD >>,
   paths |-> RulesPaths]

(***************************************************************************)
(* Task "DFT Conv": a source, a data conversion, a pivot (a kind the code  *)
(* has no rule for) and a destination.  The SourceInputColumnLineageID of  *)
(* the conversion's output columns is, in turn: the id of A in the '#{ }'  *)
(* wrapper, the id of B as it is, absent, and an id nothing has recorded.  *)
(***************************************************************************)
ConvS1 ==
  [Component("Conv\\CS1", "CS1", "Microsoft.OLEDBSource", <<>>,
     << Output("Conv\\CS1.Out", "Output",
               << OutCol("L1", "A", "wstr", <<>>, None),
                  OutCol("L2", "B", "wstr", <<>>, None) >>) >>)
   EXCEPT !.sql = "SELECT COLA AS A, COLB AS B FROM T1",
          !.colmap = ("A" :> Prov("T1", "COLA", "COLA AS A"))
                  @@ ("B" :> Prov("T1", "COLB", "COLB AS B"))]

ConvCV ==
  Component("Conv\\CV", "CV", "Microsoft.DataConvert",
     << Input("Conv\\CV.In",
              << InCol("L1", None, "A", None), InCol("L2", None, "B", None) >>) >>,
     << Output("Conv\\CV.Out", "Output",
               << OutCol("L41", "A_INT", "i4", <<>>, "#{L1}"),
                  OutCol("L42", "B_STR", "str", <<>>, "L2"),
                  OutCol("L43", "NOREF", "i4", <<>>, None),
                  OutCol("L44", "BADREF", "i4", <<>>, "#{L77}") >>) >>)

ConvP ==
  Component("Conv\\P", "P", "Microsoft.Pivot",
     << Input("Conv\\P.In", << InCol("L41", None, "A_INT", None) >>) >>,
     << Output("Conv\\P.Out", "Output",
               << OutCol("L60", "P1", "i4", <<>>, None) >>) >>)

ConvD ==
  [Component("Conv\\CD", "CD", "Microsoft.OLEDBDestination",
     << Input("Conv\\CD.In",
              << InCol("L41", None, "A_INT", "A_OUT"),
                 InCol("L42", None, "B_STR", None),
                 InCol("L43", None, "NOREF", None),
                 InCol("L44", None, "BADREF", None),
                 InCol("L60", None, "P1", None) >>) >>,
     <<>>)
   EXCEPT !.openRowset = "[dbo].[Conv]"]

ConvTask ==
  [name |-> "DFT Conv",
   comps |-> << ConvS1, ConvCV, ConvP, ConvD >>,
   paths |-> << Path("Conv\\CS1.Out", "Conv\\CV.In"), Path("Conv\\CV.Out", "Conv\\P.In"),
                Path("Conv\\P.Out", "Conv\\CD.In") >>]

(***************************************************************************)
(* Task "DFT Stale": a table source whose first output column has no name  *)
(* attribute, and a destination one of whose input columns carries an id   *)
(* nothing has recorded.                                                   *)
(***************************************************************************)
StaleS1 ==
  [Component("Stale\\S1", "SS1", "Microsoft.OLEDBSource", <<>>,
     << Output("Stale\\S1.Out", "Output",
               << OutCol("L1", None, "wstr", <<>>, None),
                  OutCol("L2", "B", "wstr", <<>>, None) >>) >>)
   EXCEPT !.table_name = "T7"]

StaleD ==
  [Component("Stale\\D", "SD", "Microsoft.OLEDBDestination",
     << Input("Stale\\D.In",
              << InCol("L2", None, "B", None), InCol("L94", None, "B", "B_OLD") >>) >>,
     <<>>)
   EXCEPT !.openRowset = "[dbo].[Stale]"]

StaleTask ==
  [name |-> "DFT Stale",
   comps |-> << StaleS1, StaleD >>,
   paths |-> << Path("Stale\\S1.Out", "Stale\\D.In") >>]

(***************************************************************************)
(* get_dataflow_sources: one source_info per Source/Lookup component of    *)
(* the whole package, in document order.  gCid is a ghost field (the       *)
(* component the entry was built from); the code does not have it.         *)
(***************************************************************************)
IsFalsy(v) == v = None \/ v = ""

\* lookup_col_name of an output column (app.py 346-359)
LookupColName(col) ==
  IF ~IsFalsy(col.copyRef) THEN col.copyRef
  ELSE IF col.hasExt THEN col.extName
  ELSE col.name

\* col_def (app.py 361-373; precision and scale are not modelled, the
\* packages carry none)
ColDef(col) ==
  IF ~IsFalsy(col.length) THEN col.dataType \o "(" \o col.length \o ")"
  ELSE col.dataType

\* if column_to_table_map: (app.py 380) - a SqlCommand was parsed to a
\* non-empty ColumnMap
HasColumnMap(comp) == ~IsFalsy(comp.sql) /\ DOMAIN comp.colmap # {}

\* lookup_col_name.upper() raises AttributeError on None (app.py 382)
SourceColumnRaises(comp, col) == HasColumnMap(comp) /\ LookupColName(col) = None

\* one entry of 'Output Columns' (app.py 375-426)
SourceOutputColumn(comp, col) ==
  LET lookup == LookupColName(col)
      key    == IF Upper(lookup) \in DOMAIN comp.colmap THEN Upper(lookup) ELSE "*"
      found  == HasColumnMap(comp) /\ key \in DOMAIN comp.colmap
      isFile == ClassHas(comp.cls, "FlatFileSource") \/ ClassHas(comp.cls, "ExcelSource")
  IN [ColumnAlias    |-> col.name,
      OriginalColumn |-> IF found THEN comp.colmap[key].source_column ELSE lookup,
      SourceTable    |-> IF found
                         THEN IF comp.colmap[key].source_table = "N/A"
                                 /\ "*" \in DOMAIN comp.colmap
                              THEN comp.colmap["*"].source_table
                              ELSE comp.colmap[key].source_table
                         ELSE IF HasColumnMap(comp) THEN "N/A"
                         ELSE IF ~IsFalsy(comp.table_name) THEN comp.table_name
                         ELSE IF isFile THEN comp.connection
                         ELSE "N/A",
      Logic          |-> IF found THEN comp.colmap[key].expression
                         ELSE IF ~HasColumnMap(comp) /\ IsFalsy(comp.table_name) /\ isFile
                              THEN "File Read"
                         ELSE "",
      DataType       |-> ColDef(col)]

\* the output columns of the outputs whose name does not contain 'Error'
SourceColumns(comp) ==
  FlatMap(LAMBDA o : IF NameHasError(o.name) THEN <<>> ELSE o.cols, comp.outputs)

SourceInfo(task, comp) ==
  [DataFlowTask  |-> task.name,
   ComponentName |-> comp.name,
   TableView     |-> IF ~IsFalsy(comp.table_name) THEN comp.table_name ELSE "N/A",
   SQLQuery      |-> IF ~IsFalsy(comp.sql) THEN comp.sql ELSE "N/A",
   OutputColumns |-> [i \in DOMAIN SourceColumns(comp) |->
                        SourceOutputColumn(comp, SourceColumns(comp)[i])],
   gCid          |-> comp.cid]

IsSourceClass(cls) == ClassHas(cls, "Source") \/ ClassHas(cls, "Lookup")

\* all components of the package with their task, in document order
PackageComponents(pkg) ==
  FlatMap(LAMBDA t : [i \in DOMAIN t.comps |-> [task |-> t, comp |-> t.comps[i]]], pkg)

SourceComponents(pkg) ==
  SelectSeq(PackageComponents(pkg), LAMBDA tc : IsSourceClass(tc.comp.cls))

GetDataflowSourcesRaises(pkg) ==
  \E i \in DOMAIN SourceComponents(pkg) :
     LET c == SourceComponents(pkg)[i].comp
     IN \E j \in DOMAIN SourceColumns(c) : SourceColumnRaises(c, SourceColumns(c)[j])

get_dataflow_sources(pkg) ==
  [i \in DOMAIN SourceComponents(pkg) |->
     SourceInfo(SourceComponents(pkg)[i].task, SourceComponents(pkg)[i].comp)]

(***************************************************************************)
(* _trace_column_lineage_topology, step 1: the graph of one task           *)
(***************************************************************************)
CompIds(task) == [i \in DOMAIN task.comps |-> task.comps[i].cid]

CompOf(task, cid) == task.comps[CHOOSE i \in DOMAIN task.comps : task.comps[i].cid = cid]

\* input_to_comp.get(end_id) (app.py 628-632, 646)
InputOwner(task, inputId) ==
  LET owns(c) == \E i \in DOMAIN c.inputs : c.inputs[i].id = inputId
      k == FirstIdx(owns, task.comps)
  IN IF k = 0 THEN None ELSE task.comps[k].cid

\* the first component with an output of that id (app.py 650-657)
OutputOwner(task, outputId) ==
  LET owns(c) == \E i \in DOMAIN c.outputs : c.outputs[i].id = outputId
      k == FirstIdx(owns, task.comps)
  IN IF k = 0 THEN None ELSE task.comps[k].cid

\* the (source, target) pair a path adds to the graph, <<>> when one of its
\* ends belongs to no component (app.py 640-661)
PathEdge(task, path) ==
  LET src == OutputOwner(task, path.startId)
      tgt == InputOwner(task, path.endId)
  IN IF src # None /\ tgt # None THEN << <<src, tgt>> >> ELSE <<>>

Edges(task) == FlatMap(LAMBDA p : PathEdge(task, p), task.paths)

\* adj_list[cid], in append order
AdjList(task, cid) ==
  LET es == SelectSeq(Edges(task), LAMBDA e : e[1] = cid)
  IN [i \in DOMAIN es |-> es[i][2]]

\* an in-degree that leaves out the paths from a component to itself
InDegreeWithoutSelfLoops(task) ==
  [cid \in Range(CompIds(task)) |->
     Cardinality({i \in DOMAIN Edges(task) :
                    Edges(task)[i][2] = cid /\ Edges(task)[i][1] # cid})]

\* in_degree after the path loop
InitialInDegree(task) ==
  [cid \in Range(CompIds(task)) |->
     Cardinality({i \in DOMAIN Edges(task) : Edges(task)[i][2] = cid})]

\* a queue that starts with every component, whatever its in-degree
InitialQueueOfAll(task) == CompIds(task)

\* queue = [cid for cid, deg in in_degree.items() if deg == 0] (app.py 669)
InitialQueue(task) ==
  SelectSeq(CompIds(task), LAMBDA cid : InitialInDegree(task)[cid] = 0)

\* source_config_map (app.py 673-674): the configs of this task by component
\* name, a later config of the same name replacing an earlier one
\* a selection that takes the configs of every task
SourceConfigOfAnyTask(s, dft_name) == TRUE

SourceConfigSelected(s, dft_name) == s.DataFlowTask = dft_name

RECURSIVE ConfigMapOf(_, _, _)
ConfigMapOf(sources, dft_name, acc) ==
  IF sources = <<>> THEN acc
  ELSE ConfigMapOf(Tail(sources), dft_name,
                   IF SourceConfigSelected(Head(sources), dft_name)
                   THEN Put(acc, Head(sources).ComponentName, Head(sources))
                   ELSE acc)

SourceConfigMap(pkg, dft_name) == ConfigMapOf(get_dataflow_sources(pkg), dft_name, EmptyMap)

(***************************************************************************)
(* Step 3, branch A: a Source / Lookup seeds lineage_id_map                *)
(* An entry is a SourceInfo dict; gOrigin is a ghost field naming the      *)
(* source component and output column the entry was seeded from (<<>> for  *)
(* a synthesized entry).                                                   *)
(***************************************************************************)
Entry(comp, table, column, logic, type, origin) ==
  [SourceComponent |-> comp, SourceTable |-> table, OriginalColumn |-> column,
   Logic |-> logic, SourceType |-> type, gOrigin |-> origin]

\* every outputColumn of every output, with its position in its output
OutputColumnItems(comp) ==
  FlatMap(LAMBDA o : [i \in DOMAIN o.cols |-> [out |-> o, col |-> o.cols[i], idx |-> i]],
          comp.outputs)

\* app.py 696-710 for one output column
SeedColumn(comp, cfg, col, lmap) ==
  LET k == FirstIdx(LAMBDA c : c.ColumnAlias = col.name, cfg.OutputColumns)
  IN IF k # 0 /\ ~IsFalsy(col.lineageId)
     THEN Put(lmap, col.lineageId,
              << Entry(comp.name, cfg.OutputColumns[k].SourceTable,
                       cfg.OutputColumns[k].OriginalColumn, cfg.OutputColumns[k].Logic,
                       cfg.OutputColumns[k].DataType,
                       <<cfg.gCid, cfg.OutputColumns[k].ColumnAlias>>) >>)
     ELSE lmap

RECURSIVE SeedColumns(_, _, _, _)
SeedColumns(comp, cfg, items, lmap) ==
  IF items = <<>> THEN lmap
  ELSE SeedColumns(comp, cfg, Tail(items), SeedColumn(comp, cfg, Head(items).col, lmap))

\* app.py 688-710
ProcessSource(comp, cfgmap, lmap) ==
  IF comp.name \in DOMAIN cfgmap
  THEN SeedColumns(comp, cfgmap[comp.name], OutputColumnItems(comp), lmap)
  ELSE lmap

(***************************************************************************)
(* Step 3, branch B: transformations                                       *)
(***************************************************************************)
\* input_name_map is an insertion-ordered dict: a sequence of <<key, value>>
DictPut(d, k, v) ==
  IF \E i \in DOMAIN d : d[i][1] = k
  THEN [i \in DOMAIN d |-> IF d[i][1] = k THEN <<k, v>> ELSE d[i]]
  ELSE Append(d, <<k, v>>)

DictGet(d, k) ==
  LET i == FirstIdx(LAMBDA kv : kv[1] = k, d) IN IF i = 0 THEN None ELSE d[i][2]

\* next((v for k,v in d.items() if k.upper() == name.upper()), None)
DictGetUpper(d, name) ==
  LET i == FirstIdx(LAMBDA kv : Upper(kv[1]) = Upper(name), d)
  IN IF i = 0 THEN None ELSE d[i][2]

InputColumns(comp) == FlatMap(LAMBDA inp : inp.cols, comp.inputs)

RECURSIVE InputNameMapOf(_, _)
\* app.py 725-734
InputNameMapOf(cols, acc) ==
  IF cols = <<>> THEN acc
  ELSE LET c  == Head(cols)
           a1 == IF ~IsFalsy(c.name) THEN DictPut(acc, c.name, c.lineageId) ELSE acc
           a2 == IF ~IsFalsy(c.cachedName) THEN DictPut(a1, c.cachedName, c.lineageId) ELSE a1
       IN InputNameMapOf(Tail(cols), a2)

InputNameMap(comp) == InputNameMapOf(InputColumns(comp), <<>>)

SourceKey(src) == <<src.SourceTable, src.OriginalColumn>>

RECURSIVE DedupTagged(_, _, _, _)
\* app.py 769-776: the entries of upstream whose (table, column) key is new,
\* each with the breadcrumb appended; returns <<new_sources, used_source_keys>>
DedupTagged(upstream, crumb, acc, used) ==
  IF upstream = <<>> THEN <<acc, used>>
  ELSE LET src == Head(upstream)
       IN IF SourceKey(src) \in used
          THEN DedupTagged(Tail(upstream), crumb, acc, used)
          ELSE DedupTagged(Tail(upstream), crumb,
                           Append(acc, [src EXCEPT !.Logic = @ \o crumb]),
                           used \cup {SourceKey(src)})

RECURSIVE UnionSourcesWithDuplicates(_, _, _, _, _, _)
\* a union that forgets the keys it has used
UnionSourcesWithDuplicates(comp, inputs, idx, lmap, acc, used) ==
  IF inputs = <<>> THEN acc
  ELSE LET in_cols == Head(inputs).cols
           hit     == idx <= Len(in_cols) /\ in_cols[idx].lineageId \in DOMAIN lmap
           r       == IF hit
                      THEN DedupTagged(lmap[in_cols[idx].lineageId],
                                       " -> Union(" \o comp.name \o ")", acc, {})
                      ELSE <<acc, used>>
       IN UnionSourcesWithDuplicates(comp, Tail(inputs), idx, lmap, r[1], r[2])

RECURSIVE UnionSources(_, _, _, _, _, _)
\* app.py 756-778
UnionSources(comp, inputs, idx, lmap, acc, used) ==
  IF inputs = <<>> THEN acc
  ELSE LET in_cols == Head(inputs).cols
           hit     == idx <= Len(in_cols) /\ in_cols[idx].lineageId \in DOMAIN lmap
           r       == IF hit
                      THEN DedupTagged(lmap[in_cols[idx].lineageId],
                                       " -> Union(" \o comp.name \o ")", acc, used)
                      ELSE <<acc, used>>
       IN UnionSources(comp, Tail(inputs), idx, lmap, r[1], r[2])

\* source_lid_prop.strip().replace('#{', '').replace('}', '') (app.py 790)
StripLineageRef(s) ==
  CASE s = "#{L1}" -> "L1"
    [] s = "#{L2}" -> "L2"
    [] s = "#{L4}" -> "L4"
    [] s = "#{L5}" -> "L5"
    [] s = "#{L77}" -> "L77"
    [] OTHER       -> s

Tagged(upstream, crumb) ==
  [i \in DOMAIN upstream |-> [upstream[i] EXCEPT !.Logic = @ \o crumb]]

\* a conversion that looks the property up as it is written
DataConvertSourcesAsWritten(out_col, lmap) ==
  IF ~IsFalsy(out_col.srcLid) /\ out_col.srcLid \in DOMAIN lmap
  THEN Tagged(lmap[out_col.srcLid], " -> Conv(" \o out_col.dataType \o ")")
  ELSE <<>>

\* app.py 782-799
DataConvertSources(out_col, lmap) ==
  LET ref == IF IsFalsy(out_col.srcLid) THEN out_col.srcLid ELSE StripLineageRef(out_col.srcLid)
  IN IF ~IsFalsy(ref) /\ ref \in DOMAIN lmap
     THEN Tagged(lmap[ref], " -> Conv(" \o out_col.dataType \o ")")
     ELSE <<>>

\* a pass-through by the name as written only
NameKeyedSourcesExactOnly(comp, out_col, inmap, lmap) ==
  LET src_lid == DictGet(inmap, out_col.name)
  IN IF ~IsFalsy(src_lid) /\ src_lid \in DOMAIN lmap
     THEN lmap[src_lid]
     ELSE << Entry(comp.name, "Transformation", out_col.name,
                   "Async (" \o comp.name \o ")", out_col.dataType, <<>>) >>

\* app.py 801-827
NameKeyedSources(comp, out_col, inmap, lmap) ==
  LET direct  == DictGet(inmap, out_col.name)
      src_lid == IF IsFalsy(direct) THEN DictGetUpper(inmap, out_col.name) ELSE direct
  IN IF ~IsFalsy(src_lid) /\ src_lid \in DOMAIN lmap
     THEN lmap[src_lid]
     ELSE << Entry(comp.name, "Transformation", out_col.name,
                   "Async (" \o comp.name \o ")", out_col.dataType, <<>>) >>

(***************************************************************************)
(* Derived column: dependencies of the FriendlyExpression                  *)
(* The re.findall of app.py 841 yields the content of every bracketed      *)
(* token and every bare word, in order.                                    *)
(***************************************************************************)
ExpressionKeywords ==
  {"TRUE", "FALSE", "NULL", "ISNULL", "TRIM", "LEN", "SUBSTRING", "GETDATE", "DATEADD",
   "DATEDIFF", "DT_STR", "DT_WSTR", "DT_DBTIMESTAMP", "DT_I4", "DT_R8"}

\* val.startswith('"'), val.isnumeric(), '::' in d on the token texts used
StartsWithQuote(v) == v \in {"\"x\""}
IsNumeric(v) == v \in {"0", "1", "2"}
HasNamespace(v) == v \in {"User::Var", "User::Rate", "System::StartTime"}

RawDeps(expr) ==
  LET ms == SelectSeq(expr, LAMBDA tk : tk.t \in {"br", "word"})
  IN [i \in DOMAIN ms |-> ms[i].v]

\* app.py 843-849
Deps(expr) ==
  SelectSeq(RawDeps(expr),
            LAMBDA val : val # "" /\ ~StartsWithQuote(val) /\ ~IsNumeric(val)
                         /\ Upper(val) \notin ExpressionKeywords)

\* column dependencies that keep the variable references
ColDepsWithVariables(expr) == Deps(expr)

\* app.py 852
ColDeps(expr) == SelectSeq(Deps(expr), LAMBDA d : ~HasNamespace(d))

TokenText(tk) == IF tk.t = "br" THEN "[" \o tk.v \o "]" ELSE tk.v

RECURSIVE ExprText(_)
ExprText(expr) == IF expr = <<>> THEN "" ELSE TokenText(Head(expr)) \o ExprText(Tail(expr))

\* in_lid of one dependency (app.py 868-871)
DepLineageId(inmap, d) ==
  IF IsFalsy(DictGet(inmap, d)) THEN DictGetUpper(inmap, d) ELSE DictGet(inmap, d)

\* app.py 873-883 for one dependency
DepSources(inmap, lmap, d) ==
  LET in_lid == DepLineageId(inmap, d)
  IN IF ~IsFalsy(in_lid) /\ in_lid \in DOMAIN lmap
     THEN [i \in DOMAIN lmap[in_lid] |->
             [lmap[in_lid][i] EXCEPT !.Logic = @ \o " -> Derived(" \o d \o ")"]]
     ELSE <<>>

\* a derived column that copies the entries of its first dependency only
DerivedSourcesOfFirstDep(comp, out_col, inmap, lmap) ==
  LET expr   == out_col.expr
      copied == IF expr # <<>> /\ ColDeps(expr) # <<>>
                THEN DepSources(inmap, lmap, ColDeps(expr)[1])
                ELSE <<>>
  IN IF copied # <<>> THEN copied
     ELSE << Entry(comp.name, "Derived / Transformation", out_col.name,
                   IF expr # <<>> THEN ExprText(expr) ELSE "Derived",
                   out_col.dataType, <<>>) >>

\* app.py 829-893
DerivedSources(comp, out_col, inmap, lmap) ==
  LET expr     == out_col.expr
      variable == IF expr # <<>> /\ ColDeps(expr) = <<>> /\ Deps(expr) # <<>>
                  THEN << Entry(comp.name, "Variable/Expression", "Expression",
                                ExprText(expr), "Derived", <<>>) >>
                  ELSE <<>>
      copied   == IF expr # <<>>
                  THEN FlatMap(LAMBDA d : DepSources(inmap, lmap, d), ColDeps(expr))
                  ELSE <<>>
  IN IF variable \o copied # <<>> THEN variable \o copied
     ELSE << Entry(comp.name, "Derived / Transformation", out_col.name,
                   IF expr # <<>> THEN ExprText(expr) ELSE "Derived",
                   out_col.dataType, <<>>) >>

\* app.py 895-903
UnknownSources(comp, out_col) ==
  << Entry(comp.name, "Transformation", out_col.name, "Unknown Logic",
           out_col.dataType, <<>>) >>

\* new_sources of a new lineage id (app.py 752-903)
NewSources(comp, item, inmap, lmap) ==
  IF ClassHas(comp.cls, "UnionAll")
    THEN UnionSources(comp, comp.inputs, item.idx, lmap, <<>>, {})
  ELSE IF ClassHas(comp.cls, "DataConvert")
    THEN DataConvertSources(item.col, lmap)
  ELSE IF ClassHas(comp.cls, "MergeJoin") \/ ClassHas(comp.cls, "Sort")
          \/ ClassHas(comp.cls, "Aggregate")
    THEN NameKeyedSources(comp, item.col, inmap, lmap)
  ELSE IF ClassHas(comp.cls, "DerivedColumn")
    THEN DerivedSources(comp, item.col, inmap, lmap)
  ELSE UnknownSources(comp, item.col)

\* app.py 739-906 for one output column
TransformColumn(comp, item, inmap, lmap) ==
  IF IsFalsy(item.col.lineageId) THEN lmap
  ELSE IF item.col.lineageId \in DOMAIN lmap THEN lmap
  ELSE Put(lmap, item.col.lineageId, NewSources(comp, item, inmap, lmap))

RECURSIVE TransformColumns(_, _, _, _)
TransformColumns(comp, items, inmap, lmap) ==
  IF items = <<>> THEN lmap
  ELSE TransformColumns(comp, Tail(items), inmap,
                        TransformColumn(comp, Head(items), inmap, lmap))

\* app.py 713-906
ProcessTransform(comp, lmap) ==
  TransformColumns(comp, OutputColumnItems(comp), InputNameMap(comp), lmap)

(***************************************************************************)
(* Step 3, branch C: a Destination emits LineageRows                       *)
(***************************************************************************)
Row(srcComp, table, column, logic, type, dest, destTable, destCol, destType, origin) ==
  [SourceComponent |-> srcComp, SourceTable |-> table, OriginalColumn |-> column,
   Logic |-> logic, SourceColumn |-> column, SourceType |-> type,
   DestinationComponent |-> dest, DestinationTable |-> destTable,
   DestinationColumn |-> destCol, DestinationType |-> destType, gOrigin |-> origin]

\* app.py 911-920
TargetTable(comp) ==
  IF comp.openRowset # None THEN comp.openRowset
  ELSE IF comp.connTable # None THEN comp.connTable
  ELSE "N/A"

\* app.py 926-934
TargetColumn(in_col) ==
  IF in_col.extName # None THEN in_col.extName
  ELSE IF in_col.cachedName # None THEN in_col.cachedName
  ELSE in_col.name

\* rows for the first entry of the list only
RecordedRowsOfFirstEntry(comp, in_col, lmap) ==
  [i \in DOMAIN lmap[in_col.lineageId] \cap {1} |->
     LET src == lmap[in_col.lineageId][i]
     IN Row(src.SourceComponent, src.SourceTable, src.OriginalColumn, src.Logic,
            src.SourceType, comp.name, TargetTable(comp), TargetColumn(in_col),
            in_col.cachedDataType, src.gOrigin)]

\* app.py 936-950
RecordedRows(comp, in_col, lmap) ==
  [i \in DOMAIN lmap[in_col.lineageId] |->
     LET src == lmap[in_col.lineageId][i]
     IN Row(src.SourceComponent, src.SourceTable, src.OriginalColumn, src.Logic,
            src.SourceType, comp.name, TargetTable(comp), TargetColumn(in_col),
            in_col.cachedDataType, src.gOrigin)]

\* startId of the first path ending at the input (app.py 964-969)
UpstreamOutputId(task, inputId) ==
  LET k == FirstIdx(LAMBDA p : p.endId = inputId, task.paths)
  IN IF k = 0 THEN None ELSE task.paths[k].startId

\* a fallback that compares the alias and the target column as written
FallbackRowsExactCase(task, comp, inp, in_col, cfgmap) ==
  LET target_col == TargetColumn(in_col)
      out_id     == UpstreamOutputId(task, inp.id)
      up_cid     == IF IsFalsy(out_id) THEN None ELSE OutputOwner(task, out_id)
      up_name    == IF up_cid = None THEN None ELSE CompOf(task, up_cid).name
  IN IF up_name = None \/ up_name \notin DOMAIN cfgmap THEN <<>>
     ELSE LET cfg == cfgmap[up_name]
              k   == FirstIdx(LAMBDA c : c.ColumnAlias = target_col,
                              cfg.OutputColumns)
          IN IF k # 0
             THEN << Row(up_name, cfg.OutputColumns[k].SourceTable,
                         cfg.OutputColumns[k].OriginalColumn,
                         cfg.OutputColumns[k].Logic \o " (Name Match)",
                         cfg.OutputColumns[k].DataType, comp.name, TargetTable(comp),
                         target_col, in_col.cachedDataType,
                         <<cfg.gCid, cfg.OutputColumns[k].ColumnAlias>>) >>
             ELSE IF ~IsFalsy(cfg.TableView) /\ cfg.TableView # "N/A" /\ cfg.SQLQuery = "N/A"
             THEN << Row(up_name, cfg.TableView, target_col, "Inferred (Stale Package)",
                         "Inferred", comp.name, TargetTable(comp), target_col,
                         in_col.cachedDataType, <<>>) >>
             ELSE <<>>

\* app.py 951-1020
FallbackRows(task, comp, inp, in_col, cfgmap) ==
  LET target_col == TargetColumn(in_col)
      out_id     == UpstreamOutputId(task, inp.id)
      up_cid     == IF IsFalsy(out_id) THEN None ELSE OutputOwner(task, out_id)
      up_name    == IF up_cid = None THEN None ELSE CompOf(task, up_cid).name
  IN IF up_name = None \/ up_name \notin DOMAIN cfgmap THEN <<>>
     ELSE LET cfg == cfgmap[up_name]
              k   == FirstIdx(LAMBDA c : Upper(c.ColumnAlias) = Upper(target_col),
                              cfg.OutputColumns)
          IN IF k # 0
             THEN << Row(up_name, cfg.OutputColumns[k].SourceTable,
                         cfg.OutputColumns[k].OriginalColumn,
                         cfg.OutputColumns[k].Logic \o " (Name Match)",
                         cfg.OutputColumns[k].DataType, comp.name, TargetTable(comp),
                         target_col, in_col.cachedDataType,
                         <<cfg.gCid, cfg.OutputColumns[k].ColumnAlias>>) >>
             ELSE IF ~IsFalsy(cfg.TableView) /\ cfg.TableView # "N/A" /\ cfg.SQLQuery = "N/A"
             THEN << Row(up_name, cfg.TableView, target_col, "Inferred (Stale Package)",
                         "Inferred", comp.name, TargetTable(comp), target_col,
                         in_col.cachedDataType, <<>>) >>
             ELSE <<>>

\* the rows of one input column (app.py 924-1020)
ColumnRows(task, comp, inp, in_col, lmap, cfgmap) ==
  IF in_col.lineageId \in DOMAIN lmap THEN RecordedRows(comp, in_col, lmap)
  ELSE IF ~IsFalsy(TargetColumn(in_col)) THEN FallbackRows(task, comp, inp, in_col, cfgmap)
  ELSE <<>>

\* app.py 909-1020
DestinationRows(task, comp, lmap, cfgmap) ==
  FlatMap(LAMBDA inp :
            FlatMap(LAMBDA in_col : ColumnRows(task, comp, inp, in_col, lmap, cfgmap),
                    inp.cols),
          comp.inputs)

\* c['Column Alias'].upper() (app.py 991) raises AttributeError on a column
\* without a name, when the scan reaches it before a match
FallbackRaises(task, comp, inp, in_col, cfgmap) ==
  LET target_col == TargetColumn(in_col)
      out_id     == UpstreamOutputId(task, inp.id)
      up_cid     == IF IsFalsy(out_id) THEN None ELSE OutputOwner(task, out_id)
      up_name    == IF up_cid = None THEN None ELSE CompOf(task, up_cid).name
  IN IF up_name = None \/ up_name \notin DOMAIN cfgmap THEN FALSE
     ELSE LET cols == cfgmap[up_name].OutputColumns
          IN \E k \in DOMAIN cols :
                /\ cols[k].ColumnAlias = None
                /\ \A j \in 1..(k - 1) : Upper(cols[j].ColumnAlias) # Upper(target_col)

\* an input column of the destination raises (app.py 924-1020)
DestinationRaises(task, comp, lmap, cfgmap) ==
  \E x \in DOMAIN comp.inputs : \E y \in DOMAIN comp.inputs[x].cols :
     LET in_col == comp.inputs[x].cols[y]
     IN /\ in_col.lineageId \notin DOMAIN lmap
        /\ ~IsFalsy(TargetColumn(in_col))
        /\ FallbackRaises(task, comp, comp.inputs[x], in_col, cfgmap)

(***************************************************************************)
(* One iteration of the while loop on the dequeued component, up to the    *)
(* push of its neighbours (app.py 678-1020): the new lineage map and the   *)
(* rows appended.                                                          *)
(***************************************************************************)
ProcessedLineage(comp, cfgmap, lmap) ==
  IF IsSourceClass(comp.cls) THEN ProcessSource(comp, cfgmap, lmap)
  ELSE ProcessTransform(comp, lmap)

EmittedRows(task, comp, cfgmap, lmap) ==
  IF ClassHas(comp.cls, "Destination")
  THEN DestinationRows(task, comp, ProcessedLineage(comp, cfgmap, lmap), cfgmap)
  ELSE <<>>

\* the iteration on the dequeued component raises
ComponentRaises(task, comp, cfgmap, lmap) ==
  /\ ClassHas(comp.cls, "Destination")
  /\ DestinationRaises(task, comp, ProcessedLineage(comp, cfgmap, lmap), cfgmap)

RECURSIVE PushOnEveryDecrement(_, _, _)
\* a push that appends the neighbour at every decrement of its in-degree
PushOnEveryDecrement(neighbors, in_degree, queue) ==
  IF neighbors = <<>> THEN <<in_degree, queue>>
  ELSE LET n   == Head(neighbors)
           deg == [in_degree EXCEPT ![n] = @ - 1]
       IN PushOnEveryDecrement(Tail(neighbors), deg, Append(queue, n))

RECURSIVE PushDownstream(_, _, _)
\* app.py 1027-1030: <<in_degree, queue>> after the neighbours are pushed
PushDownstream(neighbors, in_degree, queue) ==
  IF neighbors = <<>> THEN <<in_degree, queue>>
  ELSE LET n   == Head(neighbors)
           deg == [in_degree EXCEPT ![n] = @ - 1]
       IN PushDownstream(Tail(neighbors), deg,
                         IF deg[n] = 0 THEN Append(queue, n) ELSE queue)

(***************************************************************************)
(* The whole traversal as a function of the package: what                  *)
(* get_column_lineage returns.                                             *)
(***************************************************************************)
RECURSIVE RunQueue(_, _, _, _, _, _)
\* the while loop (app.py 677-1030) from a given loop state
RunQueue(task, cfgmap, in_degree, queue, lmap, rows) ==
  IF queue = <<>> THEN rows
  ELSE LET comp   == CompOf(task, Head(queue))
           pushed == PushDownstream(AdjList(task, Head(queue)), in_degree, Tail(queue))
       IN RunQueue(task, cfgmap, pushed[1], pushed[2],
                   ProcessedLineage(comp, cfgmap, lmap),
                   rows \o EmittedRows(task, comp, cfgmap, lmap))

\* the rows of one task of the package (app.py 609-1030)
TraceTask(pkg, task) ==
  RunQueue(task, SourceConfigMap(pkg, task.name), InitialInDegree(task),
           InitialQueue(task), EmptyMap, <<>>)

RECURSIVE RunQueueRaises(_, _, _, _, _)
\* some iteration of the while loop from a given loop state raises
RunQueueRaises(task, cfgmap, in_degree, queue, lmap) ==
  IF queue = <<>> THEN FALSE
  ELSE LET comp   == CompOf(task, Head(queue))
           pushed == PushDownstream(AdjList(task, Head(queue)), in_degree, Tail(queue))
       IN \/ ComponentRaises(task, comp, cfgmap, lmap)
          \/ RunQueueRaises(task, cfgmap, pushed[1], pushed[2],
                            ProcessedLineage(comp, cfgmap, lmap))

\* _trace_column_lineage_topology raises: at its first call of
\* get_dataflow_sources (app.py 673), or in the while loop of a task
TopologyRaises(pkg) ==
  /\ pkg # <<>>
  /\ \/ GetDataflowSourcesRaises(pkg)
     \/ \E k \in DOMAIN pkg :
           RunQueueRaises(pkg[k], SourceConfigMap(pkg, pkg[k].name),
                          InitialInDegree(pkg[k]), InitialQueue(pkg[k]), EmptyMap)

\* a handler that returns the rows appended before the raise
RowsBeforeRaise(rows) == rows

\* what get_column_lineage returns when the trace raised (app.py 1038-1040)
ResultOnRaise(rows) == <<>>

\* app.py 1034-1040
get_column_lineage(pkg) ==
  IF TopologyRaises(pkg) THEN <<>>
  ELSE FlatMap(LAMBDA task : TraceTask(pkg, task), pkg)

(***************************************************************************)
(* get_unused_columns (app.py 1042-1130)                                   *)
(***************************************************************************)
\* used_cols_map[name]: the upper-cased 'Source Column' of the rows whose
\* 'Source Component' is name (app.py 1053-1100)
UsedColumns(rows, name) ==
  {Upper(rows[i].SourceColumn) :
     i \in {j \in DOMAIN rows : ~IsFalsy(rows[j].SourceComponent)
                                /\ rows[j].SourceComponent = name
                                /\ ~IsFalsy(rows[j].SourceColumn)}}

ExpressionTables == {"Expression/Literal", "Expression", "Literal", "Static Value", "Calculation"}

\* app.py 1115-1121
ColumnIsUnused(col, used_set) ==
  /\ ~IsFalsy(col.OriginalColumn)
  /\ col.OriginalColumn # "N/A"
  /\ Upper(col.OriginalColumn) \notin used_set
  /\ col.SourceTable \notin ExpressionTables

\* unused_in_source of one source_info
UnusedInSource(src, rows) ==
  LET cols == SelectSeq(src.OutputColumns,
                        LAMBDA col : ColumnIsUnused(col, UsedColumns(rows, src.ComponentName)))
  IN [i \in DOMAIN cols |-> cols[i].OriginalColumn]

\* the report: one entry per source with unused columns; the code joins the
\* sorted names into one string, the model keeps them as a set.  gCid is
\* the ghost field of the source_info.
UnusedReport(sources, rows) ==
  LET hit == SelectSeq(sources, LAMBDA src : UnusedInSource(src, rows) # <<>>)
  IN [i \in DOMAIN hit |->
        [SourceComponent |-> hit[i].ComponentName,
         UnusedCount     |-> Len(UnusedInSource(hit[i], rows)),
         UnusedColumns   |-> Range(UnusedInSource(hit[i], rows)),
         gCid            |-> hit[i].gCid]]

(***************************************************************************)
(* Packages                                                                *)
(***************************************************************************)
\* the largest number of distinct paths of the "DFT Main" task
MaxPaths == 3

PathChoices == {I \in SUBSET DOMAIN MainCandidatePaths : Cardinality(I) <= MaxPaths}

\* the chosen candidate paths in document order; with twice, the first of
\* them occurs a second time (two paths between the same pair of slots)
MainPaths(I, twice) ==
  LET chosen == [i \in DOMAIN SeqOfIdx(I) |-> MainCandidatePaths[SeqOfIdx(I)[i]]]
  IN IF twice /\ chosen # <<>> THEN <<chosen[1]>> \o chosen ELSE chosen

MainTask(I, twice) == Task("DFT Main", MainComponents, MainPaths(I, twice))

Siblings ==
  { <<>>, <<"before", SideTask>>, <<"after", SideTask>>, <<"after", BadTask>> }

PackageOf(main, sib) ==
  IF sib = <<>> THEN <<main>>
  ELSE IF sib[1] = "before" THEN <<sib[2], main>>
  ELSE <<main, sib[2]>>

\* packages around "DFT Main", around "DFT Rules", "DFT Conv" and "DFT Stale"
Packages ==
  { PackageOf(MainTask(I, twice), sib) :
      I \in PathChoices, twice \in BOOLEAN, sib \in Siblings }
  \cup { PackageOf(RulesTask(reexpose), sib) :
           reexpose \in BOOLEAN, sib \in { <<>>, <<"before", SideTask>>, <<"after", SideTask>> } }
  \cup { PackageOf(task, sib) :
           task \in {ConvTask, StaleTask},
           sib \in { <<>>, <<"before", SideTask>>, <<"after", SideTask>> } }

(***************************************************************************)
(* The hash seed of the process.  ' UNION '.join(set(...)) of _parse_union *)
(* (sql_parser.py 709) iterates a set of strings in the order of their     *)
(* hashes, which CPython seeds anew for every process.                     *)
(***************************************************************************)
VARIABLE hash_seed

(***************************************************************************)
(* Regular expressions, matched the way Python's re matches them: by       *)
(* backtracking, alternatives in the order written, a greedy repetition    *)
(* longest first and a lazy one shortest first.  A pattern is a sequence   *)
(* of nodes; flags are "I" (re.IGNORECASE) and "S" (re.DOTALL).            *)
(***************************************************************************)
Lit(c) == [t |-> "lit", c |-> c]
Cls(names, chars, neg) == [t |-> "cls", names |-> names, chars |-> chars, neg |-> neg]
Alt(alts) == [t |-> "alt", alts |-> alts]
Rep(sub, min, max, greedy) ==
  [t |-> "rep", sub |-> sub, min |-> min, max |-> max, greedy |-> greedy]
Grp(n, sub) == [t |-> "grp", n |-> n, sub |-> sub]
GrpEnd(n, start) == [t |-> "grpend", n |-> n, start |-> start]
Look(sub) == [t |-> "look", sub |-> sub]
Bol == [t |-> "bol"]
Eol == [t |-> "eol"]
WordBoundary == [t |-> "wb"]
\* a word of the pattern, as a sequence of one node
Str(s) == <<[t |-> "str", s |-> s]>>
Unbounded == 0 - 1
Star(sub) == Rep(sub, 0, Unbounded, TRUE)
Plus(sub) == Rep(sub, 1, Unbounded, TRUE)
Opt(sub) == Rep(sub, 0, 1, TRUE)
LazyStar(sub) == Rep(sub, 0, Unbounded, FALSE)
LazyPlus(sub) == Rep(sub, 1, Unbounded, FALSE)
WordChar == Cls({"w"}, {}, FALSE)
Space == Cls({"s"}, {}, FALSE)
Digit == Cls({"d"}, {}, FALSE)
AnyChar == Cls({"dot"}, {}, FALSE)
OneOf(chars) == Cls({}, chars, FALSE)
NoneOf(chars) == Cls({}, chars, TRUE)

NoMatch == [ok |-> FALSE]

\* whether the character c matches a literal or a class
CharMatches(node, c, flags) ==
  /\ c # ""
  /\ IF node.t = "lit"
     THEN c = node.c \/ ("I" \in flags /\ UpperChar(c) = UpperChar(node.c))
     ELSE LET in == \/ ("w" \in node.names /\ IsWord(c))
                    \/ ("s" \in node.names /\ IsSpace(c))
                    \/ ("d" \in node.names /\ c \in Digits)
                    \/ ("dot" \in node.names /\ ("S" \in flags \/ c # "\n"))
                    \/ c \in node.chars
                    \/ ("I" \in flags /\ \E k \in node.chars : UpperChar(k) = UpperChar(c))
          IN in # node.neg

RepLess(n) ==
  Rep(n.sub, IF n.min > 0 THEN n.min - 1 ELSE 0,
      IF n.max = Unbounded THEN Unbounded ELSE n.max - 1, n.greedy)

\* m when it is a match, the other attempt when it is not
OrElse(m, other) == IF m.ok THEN m ELSE other

RECURSIVE Halves(_, _, _)
\* F(j) for the least j in lo..hi for which it is a match, lo <= hi
Halves(F(_), lo, hi) ==
  IF lo = hi THEN F(lo)
  ELSE OrElse(Halves(F, lo, (lo + hi) \div 2), Halves(F, (lo + hi) \div 2 + 1, hi))

\* the kind of the first node, "end" for no node
Kind(nodes) == IF nodes = <<>> THEN "end" ELSE Head(nodes).t

\* whether a repetition repeats one character
RepeatsChar(n) == Len(n.sub) = 1 /\ n.sub[1].t \in {"lit", "cls"}

\* whether the text is the word of the pattern
WordMatches(word, text, flags) == text = word \/ ("I" \in flags /\ Upper(text) = Upper(word))

\* the length of the run of characters matching the node from position i on,
\* no longer than max
Run(node, s, i, max, flags) ==
  Least(LAMBDA j : ~CharMatches(node, At(s, j), flags), i,
        i - 1 + IF max = Unbounded THEN Len(s) - i ELSE Min(max, Len(s) - i)) - i

RECURSIVE Match(_, _, _, _, _)
RECURSIVE MatchAlt(_, _, _, _, _, _)
\* the first alternative, in order, with which the rest matches
MatchAlt(alts, rest, s, i, caps, flags) ==
  IF alts = <<>> THEN NoMatch
  ELSE OrElse(Match(Head(alts) \o rest, s, i, caps, flags),
              MatchAlt(Tail(alts), rest, s, i, caps, flags))

\* the counts of a repeated character that are tried after the first one, in
\* order: shorter and shorter when greedy, longer and longer when not
Shorter(n, run, rest, s, i, caps, flags) ==
  IF run - n.min < 1 THEN NoMatch
  ELSE Halves(LAMBDA k : Match(rest, s, i + run - k, caps, flags), 1, run - n.min)
Longer(n, run, rest, s, i, caps, flags) ==
  IF run - n.min < 1 THEN NoMatch
  ELSE Halves(LAMBDA k : Match(rest, s, i + k, caps, flags), n.min + 1, run)

\* the match of the node sequence at position i: where it ends and what its
\* groups captured (a group that took no part has no capture)
Match(nodes, s, i, caps, flags) ==
  CASE Kind(nodes) = "end" -> [ok |-> TRUE, end |-> i, caps |-> caps]
    [] Kind(nodes) \in {"lit", "cls"} ->
         IF CharMatches(Head(nodes), At(s, i), flags)
         THEN Match(Tail(nodes), s, i + 1, caps, flags) ELSE NoMatch
    [] Kind(nodes) = "str" ->
         IF WordMatches(Head(nodes).s, Slice(s, i, i + Len(Head(nodes).s)), flags)
         THEN Match(Tail(nodes), s, i + Len(Head(nodes).s), caps, flags) ELSE NoMatch
    [] Kind(nodes) = "alt" ->
         OrElse(Match(Head(Head(nodes).alts) \o Tail(nodes), s, i, caps, flags),
                MatchAlt(Tail(Head(nodes).alts), Tail(nodes), s, i, caps, flags))
    [] Kind(nodes) = "rep" /\ RepeatsChar(Head(nodes)) /\ Head(nodes).greedy ->
         \* a repeated character: the run of matching characters is found
         \* first, then the counts are tried in order, the longest first
         IF Run(Head(nodes).sub[1], s, i, Head(nodes).max, flags) < Head(nodes).min
         THEN NoMatch
         ELSE OrElse(Match(Tail(nodes), s,
                           i + Run(Head(nodes).sub[1], s, i, Head(nodes).max, flags),
                           caps, flags),
                     Shorter(Head(nodes),
                             Run(Head(nodes).sub[1], s, i, Head(nodes).max, flags),
                             Tail(nodes), s, i, caps, flags))
    [] Kind(nodes) = "rep" /\ RepeatsChar(Head(nodes)) /\ ~Head(nodes).greedy ->
         IF Run(Head(nodes).sub[1], s, i, Head(nodes).max, flags) < Head(nodes).min
         THEN NoMatch
         ELSE OrElse(Match(Tail(nodes), s, i + Head(nodes).min, caps, flags),
                     Longer(Head(nodes),
                            Run(Head(nodes).sub[1], s, i, Head(nodes).max, flags),
                            Tail(nodes), s, i, caps, flags))
    [] Kind(nodes) = "rep" /\ ~RepeatsChar(Head(nodes)) ->
         IF Head(nodes).min > 0
         THEN Match(Head(nodes).sub \o <<RepLess(Head(nodes))>> \o Tail(nodes), s, i, caps,
                    flags)
         ELSE IF Head(nodes).max = 0 THEN Match(Tail(nodes), s, i, caps, flags)
         ELSE IF Head(nodes).greedy
         THEN OrElse(Match(Head(nodes).sub \o <<RepLess(Head(nodes))>> \o Tail(nodes), s, i,
                           caps, flags),
                     Match(Tail(nodes), s, i, caps, flags))
         ELSE OrElse(Match(Tail(nodes), s, i, caps, flags),
                     Match(Head(nodes).sub \o <<RepLess(Head(nodes))>> \o Tail(nodes), s, i,
                           caps, flags))
    [] Kind(nodes) = "grp" ->
         Match(Head(nodes).sub \o <<GrpEnd(Head(nodes).n, i)>> \o Tail(nodes), s, i, caps,
               flags)
    [] Kind(nodes) = "grpend" ->
         Match(Tail(nodes), s, i, (Head(nodes).n :> <<Head(nodes).start, i>>) @@ caps,
               flags)
    [] Kind(nodes) = "look" ->
         IF Match(Head(nodes).sub, s, i, caps, flags).ok
         THEN Match(Tail(nodes), s, i, caps, flags) ELSE NoMatch
    [] Kind(nodes) = "bol" ->
         IF i = 0 THEN Match(Tail(nodes), s, i, caps, flags) ELSE NoMatch
    [] Kind(nodes) = "eol" ->
         IF i = Len(s) \/ (i = Len(s) - 1 /\ At(s, i) = "\n")
         THEN Match(Tail(nodes), s, i, caps, flags) ELSE NoMatch
    [] Kind(nodes) = "wb" ->
         IF IsWord(At(s, i - 1)) # IsWord(At(s, i))
         THEN Match(Tail(nodes), s, i, caps, flags) ELSE NoMatch

\* the match that starts at position j
Placed(m, j) ==
  IF m.ok THEN [ok |-> TRUE, start |-> j, end |-> m.end, caps |-> m.caps] ELSE NoMatch
MatchAt(re, s, j, flags) == Placed(Match(re, s, j, <<>>, flags), j)

\* re.match
ReMatch(re, s, flags) == MatchAt(re, s, 0, flags)

\* whether the pattern can match at position j: its first node does, and
\* then all of it
MatchesAt(re, s, j, flags) ==
  /\ Match(<<Head(re)>>, s, j, <<>>, flags).ok
  /\ Match(re, s, j, <<>>, flags).ok

\* the leftmost match starting at position from or later
Leftmost(re, s, j, flags) == IF j > Len(s) THEN NoMatch ELSE MatchAt(re, s, j, flags)
SearchFrom(re, s, from, flags) ==
  Leftmost(re, s, Least(LAMBDA j : MatchesAt(re, s, j, flags), from, Len(s)), flags)

\* re.search
Search(re, s, flags) == SearchFrom(re, s, 0, flags)

RECURSIVE FindIterFrom(_, _, _, _)
\* re.finditer: the matches from left to right, none overlapping another
\* (no pattern of the resolver matches the empty string)
FindIterFrom(re, s, from, flags) ==
  Do([m \in {SearchFrom(re, s, from, flags)} |->
    IF ~m.ok THEN <<>>
    ELSE <<m>> \o FindIterFrom(re, s, IF m.end = m.start THEN m.end + 1 ELSE m.end, flags)])

FindIter(re, s, flags) == FindIterFrom(re, s, 0, flags)

\* match.group(n), None for a group that took no part; match.group(0)
Group(s, m, n) == IF n \in DOMAIN m.caps THEN Slice(s, m.caps[n][1], m.caps[n][2]) ELSE None
Whole(s, m) == Slice(s, m.start, m.end)

RECURSIVE SubFrom(_, _, _, _)
SubFrom(ms, repl, s, from) ==
  IF ms = <<>> THEN From(s, from)
  ELSE Slice(s, from, Head(ms).start) \o repl \o SubFrom(Tail(ms), repl, s, Head(ms).end)

\* re.sub(re, repl, s) for a replacement text without group references
ReSub(re, repl, s, flags) == SubFrom(FindIter(re, s, flags), repl, s, 0)

(***************************************************************************)
(* The patterns of src/sql_parser.py, each under the text it is written    *)
(* as in the source.                                                       *)
(***************************************************************************)
Spaces == Plus(<<Space>>)
MaybeSpaces == Star(<<Space>>)
\* [A-Z_]
NameStart == OneOf(Range(UpperLetters) \cup {"_"})
\* (?:\[[^\]]+\])|(?:[\w]+)
BracketedOrWord ==
  Alt(<< <<Lit("["), Plus(<<NoneOf({"]"})>>), Lit("]")>>, <<Plus(<<WordChar>>)>> >>)
\* \[[^\]]+\]
Bracketed == <<Lit("["), Plus(<<NoneOf({"]"})>>), Lit("]")>>

\* CONVERT\s*\(\s*([^,]+)\s*,\s*(.+)\s*\)
ConvertPattern ==
  Str("CONVERT") \o
  << MaybeSpaces, Lit("("), MaybeSpaces, Grp(1, <<Plus(<<NoneOf({","})>>)>>), MaybeSpaces,
     Lit(","), MaybeSpaces, Grp(2, <<Plus(<<AnyChar>>)>>), MaybeSpaces, Lit(")") >>
\* CAST\s*\(\s*(.+?)\s+AS\s+([^)]+)\)
CastPattern ==
  Str("CAST") \o << MaybeSpaces, Lit("("), MaybeSpaces, Grp(1, <<LazyPlus(<<AnyChar>>)>>), Spaces >>
  \o Str("AS") \o << Spaces, Grp(2, <<Plus(<<NoneOf({")"})>>)>>), Lit(")") >>
\* COALESCE\s*\((.+)\)
CoalescePattern ==
  Str("COALESCE") \o << MaybeSpaces, Lit("("), Grp(1, <<Plus(<<AnyChar>>)>>), Lit(")") >>
\* NAME\s*\((.+?),(.+?)\)
TwoArguments(name) ==
  Str(name) \o << MaybeSpaces, Lit("("), Grp(1, <<LazyPlus(<<AnyChar>>)>>), Lit(","),
                  Grp(2, <<LazyPlus(<<AnyChar>>)>>), Lit(")") >>
\* NAME\s*\((.+?),(.+?),(.+?)\)
ThreeArguments(name) ==
  Str(name) \o << MaybeSpaces, Lit("("), Grp(1, <<LazyPlus(<<AnyChar>>)>>), Lit(","),
                  Grp(2, <<LazyPlus(<<AnyChar>>)>>), Lit(","),
                  Grp(3, <<LazyPlus(<<AnyChar>>)>>), Lit(")") >>
\* func_patterns: the pattern, the function name, the number of groups
func_patterns ==
  << <<ConvertPattern, "CONVERT", 2>>,
     <<CastPattern, "CAST", 2>>,
     <<CoalescePattern, "COALESCE", 1>>,
     <<TwoArguments("ISNULL"), "ISNULL", 2>>,
     <<TwoArguments("NULLIF"), "NULLIF", 2>>,
     <<ThreeArguments("SUBSTRING"), "SUBSTRING", 3>>,
     <<ThreeArguments("DATEADD"), "DATEADD", 3>>,
     <<ThreeArguments("DATEDIFF"), "DATEDIFF", 3>> >>

\* ^((?:\[[^\]]+\])|(?:[\w]+))\s*\.\s*((?:\[[^\]]+\])|(?:[\w]+))$
QualifiedColumnPattern ==
  << Bol, Grp(1, <<BracketedOrWord>>), MaybeSpaces, Lit("."), MaybeSpaces,
     Grp(2, <<BracketedOrWord>>), Eol >>
\* ^((?:\[[^\]]+\])|(?:[\w]+))$
UnqualifiedColumnPattern == << Bol, Grp(1, <<BracketedOrWord>>), Eol >>

\* WHEN\s+(.+?)\s+THEN\s+(.+?)(?=\s+WHEN|\s+ELSE|\s+END|$)
when_pattern ==
  Str("WHEN") \o << Spaces, Grp(1, <<LazyPlus(<<AnyChar>>)>>), Spaces >> \o Str("THEN")
  \o << Spaces, Grp(2, <<LazyPlus(<<AnyChar>>)>>),
        Look(<<Alt(<< <<Spaces>> \o Str("WHEN"), <<Spaces>> \o Str("ELSE"),
                      <<Spaces>> \o Str("END"), <<Eol>> >>)>>) >>
\* ELSE\s+(.+?)\s+END
ElsePattern ==
  Str("ELSE") \o << Spaces, Grp(1, <<LazyPlus(<<AnyChar>>)>>), Spaces >> \o Str("END")

\* '[^']*'
QuotedPattern == << Lit("'"), Star(<<NoneOf({"'"})>>), Lit("'") >>
\* \d+
NumberPattern == << Plus(<<Digit>>) >>
\* (?:\[[^\]]+\]|\b[A-Z_][\w]*)\s*\.\s*(?:\[[^\]]+\]|[A-Z_][\w]*\b)
pattern_dot ==
  << Alt(<< Bracketed, <<WordBoundary, NameStart, Star(<<WordChar>>)>> >>),
     MaybeSpaces, Lit("."), MaybeSpaces,
     Alt(<< Bracketed, <<NameStart, Star(<<WordChar>>), WordBoundary>> >>) >>
\* (?:(\[[^\]]+\])|(\b[A-Z_][\w]*\b))
pattern_word ==
  << Alt(<< <<Grp(1, Bracketed)>>,
            <<Grp(2, <<WordBoundary, NameStart, Star(<<WordChar>>), WordBoundary>>)>> >>) >>

\* ^\s*DECLARE\s+
DeclarePattern == <<Bol, MaybeSpaces>> \o Str("DECLARE") \o <<Spaces>>
\* ^\s*WITH\s+
WithPattern == <<Bol, MaybeSpaces>> \o Str("WITH") \o <<Spaces>>
\* (\w+)\s+AS\s*\(
CteNamePattern ==
  <<Grp(1, <<Plus(<<WordChar>>)>>), Spaces>> \o Str("AS") \o <<MaybeSpaces, Lit("(")>>
\* \(\s*SELECT
SubqueryPattern == <<Lit("("), MaybeSpaces>> \o Str("SELECT")
\* (\w+)\s*$
LastWordPattern == <<Grp(1, <<Plus(<<WordChar>>)>>), MaybeSpaces, Eol>>
\* ^\s*(?:AS\s+)?(\w+)
DerivedAliasPattern ==
  <<Bol, MaybeSpaces, Opt(Str("AS") \o <<Spaces>>), Grp(1, <<Plus(<<WordChar>>)>>)>>

\* \[?[\w\.\[\]]+\]?\.
QualifierPart ==
  << Opt(<<Lit("[")>>), Plus(<<Cls({"w"}, {".", "[", "]"}, FALSE)>>), Opt(<<Lit("]")>>),
     Lit(".") >>
\* (?:FROM|JOIN)\s+(?:\[?[\w\.\[\]]+\]?\.)?(?:\[?[\w\.\[\]]+\]?\.)?(\[?[\w_]+\]?)(?:\s+(?:AS\s+)?(\w+))?
TableAliasPattern ==
  << Alt(<<Str("FROM"), Str("JOIN")>>), Spaces, Opt(QualifierPart), Opt(QualifierPart),
     Grp(1, <<Opt(<<Lit("[")>>), Plus(<<Cls({"w"}, {"_"}, FALSE)>>), Opt(<<Lit("]")>>)>>),
     Opt(<<Spaces, Opt(Str("AS") \o <<Spaces>>), Grp(2, <<Plus(<<WordChar>>)>>)>>) >>

\* SELECT\s+
SelectPattern == Str("SELECT") \o <<Spaces>>

\* (?:\s+AS\s+|\s+)((?:\[[^\]]+\])|(?:[\w]+))\s*$
ColumnAliasPattern ==
  << Alt(<< <<Spaces>> \o Str("AS") \o <<Spaces>>, <<Spaces>> >>),
     Grp(1, <<BracketedOrWord>>), MaybeSpaces, Eol >>

\* (LEFT|RIGHT|INNER|FULL|CROSS)?\s*(OUTER\s+)?JOIN\s+.*?\s+ON\s+(.*?)(?=\s+(?:LEFT|RIGHT|INNER|FULL|CROSS|WHERE|GROUP|ORDER|UNION|$))
join_pattern ==
  << Opt(<<Grp(1, <<Alt(<<Str("LEFT"), Str("RIGHT"), Str("INNER"), Str("FULL"),
                          Str("CROSS")>>)>>)>>),
     MaybeSpaces, Opt(<<Grp(2, Str("OUTER") \o <<Spaces>>)>>) >>
  \o Str("JOIN") \o << Spaces, LazyStar(<<AnyChar>>), Spaces >>
  \o Str("ON")
  \o << Spaces, Grp(3, <<LazyStar(<<AnyChar>>)>>),
        Look(<<Spaces, Alt(<< Str("LEFT"), Str("RIGHT"), Str("INNER"), Str("FULL"),
                              Str("CROSS"), Str("WHERE"), Str("GROUP"), Str("ORDER"),
                              Str("UNION"), <<Eol>> >>)>>) >>

\* [A-Z_][\w]*\.[A-Z_][\w]*
DottedName == << NameStart, Star(<<WordChar>>), Lit("."), NameStart, Star(<<WordChar>>) >>
\* (?:(?:ISNULL|COALESCE)\s*\(\s*)?
NullWrapper ==
  Opt(<<Alt(<<Str("ISNULL"), Str("COALESCE")>>), MaybeSpaces, Lit("("), MaybeSpaces>>)
\* (?:(?:ISNULL|COALESCE)\s*\(\s*)?([A-Z_][\w]*\.[A-Z_][\w]*)(?:.*?\))?\s*=\s*(?:(?:ISNULL|COALESCE)\s*\(\s*)?([A-Z_][\w]*\.[A-Z_][\w]*)(?:.*?\))?
col_pairs_pattern ==
  << NullWrapper, Grp(1, DottedName), Opt(<<LazyStar(<<AnyChar>>), Lit(")")>>), MaybeSpaces,
     Lit("="), MaybeSpaces, NullWrapper, Grp(2, DottedName),
     Opt(<<LazyStar(<<AnyChar>>), Lit(")")>>) >>

(***************************************************************************)
(* Python dicts keep insertion order: a dict is a sequence of <<key,       *)
(* value>> with no key twice (DictPut, DictGet above).                     *)
(***************************************************************************)
DictHas(d, k) == \E i \in DOMAIN d : d[i][1] = k
DictKeys(d) == [i \in DOMAIN d |-> d[i][1]]
DictValues(d) == [i \in DOMAIN d |-> d[i][2]]

RECURSIVE DictUpdate(_, _)
\* d.update(e), {**d, **e}
DictUpdate(d, e) ==
  IF e = <<>> THEN d ELSE DictUpdate(DictPut(d, Head(e)[1], Head(e)[2]), Tail(e))

\* the order in which a set of strings is iterated.  It follows the hashes
\* of the strings, which CPython seeds anew for every process: the two orders
\* here are all the orders of a set of at most two elements.
SetIteration(S) ==
  Do([up \in {Sorted(S)} |->
    IF hash_seed = 0 THEN up ELSE [k \in DOMAIN up |-> up[Len(up) + 1 - k]]])

\* SQLParser() (app.py 1237, 1348): no variable_resolver
variable_resolver == None

\* _resolve_variables (sql_parser.py 27-31)
_resolve_variables(sql) ==
  IF variable_resolver # None /\ Contains(sql, "@[") THEN variable_resolver ELSE sql

\* the single quote alone
SingleQuote == {"'"}

\* a string starts at either quote (sql_parser.py 93, 126, 166)
Quotes == {"'", "\""}

\* one round of the while loop of _clean_sql_comments (sql_parser.py 43-101);
\* At is "" beyond the end, which is the test i + 1 < n
CleanStep(sql, st) ==
  LET char == At(sql, st.i)
      next == At(sql, st.i + 1)
  IN IF st.in_string
     THEN IF char = st.string_char
          THEN IF next = st.string_char
               THEN [st EXCEPT !.result = @ \o char \o next, !.i = @ + 2]
               ELSE [st EXCEPT !.result = @ \o char, !.in_string = FALSE, !.i = @ + 1]
          ELSE [st EXCEPT !.result = @ \o char, !.i = @ + 1]
     ELSE IF st.in_line_comment
     THEN IF char = "\n"
          THEN [st EXCEPT !.in_line_comment = FALSE, !.result = @ \o char, !.i = @ + 1]
          ELSE [st EXCEPT !.i = @ + 1]
     ELSE IF st.depth > 0
     THEN IF char = "/" /\ next = "*" THEN [st EXCEPT !.depth = @ + 1, !.i = @ + 2]
          ELSE IF char = "*" /\ next = "/" THEN [st EXCEPT !.depth = @ - 1, !.i = @ + 2]
          ELSE [st EXCEPT !.i = @ + 1]
     ELSE IF char = "/" /\ next = "*" THEN [st EXCEPT !.depth = @ + 1, !.i = @ + 2]
     ELSE IF char = "-" /\ next = "-" THEN [st EXCEPT !.in_line_comment = TRUE, !.i = @ + 2]
     ELSE IF char \in Quotes
     THEN [st EXCEPT !.in_string = TRUE, !.string_char = char, !.result = @ \o char,
                     !.i = @ + 1]
     ELSE [st EXCEPT !.result = @ \o char, !.i = @ + 1]

\* sql_parser.py 33-103
_clean_sql_comments(sql) ==
  While(LAMBDA st : CleanStep(sql, st), LAMBDA st : st.i < Len(sql),
        [i |-> 0, depth |-> 0, in_string |-> FALSE, in_line_comment |-> FALSE,
         string_char |-> None, result |-> ""],
        Len(sql)).result

\* one round of the while loop of _extract_balanced_parens (115-140)
ParensStep(sql, start_pos, st) ==
  LET char == At(sql, st.i)
  IN IF st.in_string
     THEN IF char = st.string_char
          THEN IF At(sql, st.i + 1) = st.string_char
               THEN [st EXCEPT !.i = @ + 2]
               ELSE [st EXCEPT !.in_string = FALSE, !.i = @ + 1]
          ELSE [st EXCEPT !.i = @ + 1]
     ELSE IF char \in Quotes
     THEN [st EXCEPT !.in_string = TRUE, !.string_char = char, !.i = @ + 1]
     ELSE IF char = "(" THEN [st EXCEPT !.depth = @ + 1, !.i = @ + 1]
     ELSE IF char = ")"
     THEN IF st.depth - 1 = 0
          THEN [st EXCEPT !.depth = @ - 1, !.returned = TRUE]
          ELSE [st EXCEPT !.depth = @ - 1, !.i = @ + 1]
     ELSE [st EXCEPT !.i = @ + 1]

\* sql_parser.py 105-142: <<content, position of the closing parenthesis>>
_extract_balanced_parens(sql, start_pos) ==
  IF start_pos >= Len(sql) \/ At(sql, start_pos) # "(" THEN <<"", start_pos>>
  ELSE Do([st \in {While(LAMBDA s : ParensStep(sql, start_pos, s),
                 LAMBDA s : ~s.returned /\ s.i < Len(sql),
                 [i |-> start_pos, depth |-> 0, in_string |-> FALSE,
                  string_char |-> None, returned |-> FALSE],
                 Len(sql))} |-> IF st.returned THEN <<Slice(sql, start_pos + 1, st.i), st.i>>
                       ELSE <<From(sql, start_pos + 1), st.i>>])

\* one round of the while loop of _tokenize_select_list (153-188)
TokenizeStep(select_clause, st) ==
  LET char == At(select_clause, st.i)
  IN IF st.in_string
     THEN IF char = st.string_char
          THEN IF At(select_clause, st.i + 1) = st.string_char
               THEN [st EXCEPT !.current = @ \o char \o char, !.i = @ + 2]
               ELSE [st EXCEPT !.current = @ \o char, !.in_string = FALSE, !.i = @ + 1]
          ELSE [st EXCEPT !.current = @ \o char, !.i = @ + 1]
     ELSE IF char \in Quotes
     THEN [st EXCEPT !.in_string = TRUE, !.string_char = char, !.current = @ \o char,
                     !.i = @ + 1]
     ELSE IF char = "("
     THEN [st EXCEPT !.depth = @ + 1, !.current = @ \o char, !.i = @ + 1]
     ELSE IF char = ")"
     THEN [st EXCEPT !.depth = @ - 1, !.current = @ \o char, !.i = @ + 1]
     ELSE IF char = "," /\ st.depth = 0
     THEN [st EXCEPT !.tokens = Append(@, Strip(st.current)), !.current = "", !.i = @ + 1]
     ELSE [st EXCEPT !.current = @ \o char, !.i = @ + 1]

\* sql_parser.py 144-193
_tokenize_select_list(select_clause) ==
  Do([st \in {While(LAMBDA s : TokenizeStep(select_clause, s),
            LAMBDA s : s.i < Len(select_clause),
            [i |-> 0, depth |-> 0, in_string |-> FALSE, string_char |-> None,
             current |-> "", tokens |-> <<>>],
            Len(select_clause))} |-> IF st.current # "" THEN Append(st.tokens, Strip(st.current))
                  ELSE st.tokens])

\* sql_parser.py 357-362
_simplify_expr(expr) ==
  Do([e \in {Strip(expr)} |-> IF Len(e) > 50 THEN Slice(e, 0, 47) \o "..." ELSE e])

keywords ==
  { "SELECT", "FROM", "WHERE", "CASE", "WHEN", "THEN", "ELSE", "END",
    "AND", "OR", "NOT", "IN", "IS", "NULL", "LIKE", "BETWEEN", "EXISTS",
    "CAST", "CONVERT", "COALESCE", "ISNULL", "SUM", "COUNT", "AVG", "MIN", "MAX",
    "LEFT", "RIGHT", "SUBSTRING", "DATEADD", "DATEDIFF", "AS", "ON", "JOIN",
    "INNER", "OUTER", "CROSS", "APPLY", "TOP", "DISTINCT", "GROUP", "ORDER", "BY",
    "INT", "VARCHAR", "CHAR", "DATE", "DATETIME", "DECIMAL", "NUMERIC", "FLOAT",
    "TRUE", "FALSE", "LITERAL", "NUM", "UPPER", "LOWER", "TRIM", "LTRIM", "RTRIM",
    "REPLACE", "LEN", "DATALENGTH", "ROUND", "FLOOR", "CEILING", "ABS", "FORMAT",
    "YEAR", "MONTH", "DAY", "GETDATE", "GETUTCDATE", "IIF", "CHOOSE", "NULLIF" }

\* the reference of a match of pattern_dot (377-383)
DotRef(masked, m) ==
  Do([parts \in {SplitOnce(Whole(masked, m), ".")} |->
    << <<Upper(StripBrackets(Strip(parts[1]))), Upper(StripBrackets(Strip(parts[2])))>> >>])

\* the reference, if it is one, of a match of pattern_word (401-427)
WordRef(masked, m) ==
  Do([word \in {Upper(StripBrackets(IF Group(masked, m, 1) # None THEN Group(masked, m, 1)
                          ELSE Group(masked, m, 2)))} |->
        IF word \in keywords THEN <<>>
        ELSE IF EndsWith(RStrip(Slice(masked, 0, m.start)), ".") THEN <<>>
        ELSE IF StartsWith(LStrip(From(masked, m.end)), ".") THEN <<>>
        ELSE << <<None, word>> >>])

\* sql_parser.py 364-431: the references <<table or None, column>> of expr
_extract_column_refs(expr, context_tables) ==
  Do([masked \in {ReSub(NumberPattern, "NUM", ReSub(QuotedPattern, "'LITERAL'", expr, {}), {})} |->
        FlatMap(LAMBDA m : DotRef(masked, m), FindIter(pattern_dot, masked, {"I"}))
        \o FlatMap(LAMBDA m : WordRef(masked, m), FindIter(pattern_word, masked, {"I"}))])

\* context_tables.get(table_ref, table_ref)
ContextTable(context_tables, table_ref) ==
  IF DictHas(context_tables, table_ref) THEN DictGet(context_tables, table_ref)
  ELSE table_ref

\* the tables and columns of a dependency list (259-263, 297-301); a table
\* reference that is None or empty adds no table
TablesOf(deps, context_tables) ==
  {ContextTable(context_tables, d[1]) : d \in {e \in Range(deps) : e[1] \notin {None, ""}}}
ColumnsOf(deps) == {d[2] : d \in Range(deps)}

Analysis(type, dependencies, logic, source_tables, source_columns) ==
  [type |-> type, dependencies |-> dependencies, logic |-> logic,
   source_tables |-> source_tables, source_columns |-> source_columns]

\* dependencies.extend(..), source_tables.update(..), source_columns.update(..)
\* over a list of analyses
Gathered(analyses) ==
  [dependencies |-> FlatMap(LAMBDA a : a.dependencies, analyses),
   source_tables |-> UNION {a.source_tables : a \in Range(analyses)},
   source_columns |-> UNION {a.source_columns : a \in Range(analyses)}]

\* match.groups() of a match all of whose n groups took part
Groups(s, m, n) == [g \in 1..n |-> Group(s, m, g)]

\* the first pattern of func_patterns found in expr, 0 when there is none
FirstFunction(expr) == FirstIdx(LAMBDA p : Search(p[1], expr, {"S"}).ok, func_patterns)

\* any(op in expr for op in ['+', '-', '*', '/', '||', 'CONCAT'])
HasOperator(expr) == \E op \in {"+", "-", "*", "/", "||", "CONCAT"} : Contains(expr, op)

\* (expr.startswith("'") and expr.endswith("'")) or
\* expr.replace('.', '', 1).isdigit() or expr == 'NULL'
IsLiteral(expr) ==
  \/ StartsWith(expr, "'") /\ EndsWith(expr, "'")
  \/ IsDigitStr(RemoveFirst(expr, "."))
  \/ expr = "NULL"

RECURSIVE decompose_expression(_, _)
RECURSIVE DecomposeEach(_, _)
DecomposeEach(exprs, context_tables) ==
  IF exprs = <<>> THEN <<>>
  ELSE <<decompose_expression(Head(exprs), context_tables)>>
       \o DecomposeEach(Tail(exprs), context_tables)

\* sql_parser.py 305-355
_extract_case_dependencies(case_expr, context_tables) ==
  Do([whens \in {FindIter(when_pattern, case_expr, {"S"})} |->
  Do([else_match \in {Search(ElsePattern, case_expr, {"S"})} |->
  Do([parts \in {FlatMap(LAMBDA m : <<Group(case_expr, m, 1), Group(case_expr, m, 2)>>, whens)
      \o (IF else_match.ok THEN <<Group(case_expr, else_match, 1)>> ELSE <<>>)} |->
  Do([all \in {Gathered(DecomposeEach(parts, context_tables))} |->
  Do([logic_parts \in {[k \in DOMAIN whens |->
         "WHEN " \o _simplify_expr(Group(case_expr, whens[k], 1))
         \o " THEN " \o _simplify_expr(Group(case_expr, whens[k], 2))]
      \o (IF else_match.ok
          THEN <<"ELSE " \o _simplify_expr(Group(case_expr, else_match, 1))>> ELSE <<>>)} |->
    [dependencies |-> all.dependencies, source_tables |-> all.source_tables,
     source_columns |-> all.source_columns,
     logic |-> "CASE " \o JoinStr(logic_parts, " ") \o " END"]])])])])])

\* sql_parser.py 195-303
decompose_expression(expression, context_tables) ==
  Do([expr \in {Upper(Strip(expression))} |->
  Do([f \in {FirstFunction(expr)} |->
  Do([col_match \in {ReMatch(QualifiedColumnPattern, expr, {})} |->
    IF StartsWith(expr, "CASE")
    THEN Do([d \in {_extract_case_dependencies(expr, context_tables)} |->
           Analysis("CASE", d.dependencies, d.logic, d.source_tables, d.source_columns)])
    ELSE IF f # 0
    THEN Do([args \in {Groups(expr, Search(func_patterns[f][1], expr, {"S"}), func_patterns[f][3])} |->
         Do([all \in {Gathered(DecomposeEach(args, context_tables))} |->
           [function_name |-> func_patterns[f][2]]
           @@ Analysis("FUNCTION", all.dependencies,
                       func_patterns[f][2] \o "("
                         \o JoinStr([k \in DOMAIN args |-> _simplify_expr(args[k])], ", ")
                         \o ")",
                       all.source_tables, all.source_columns)])])
    ELSE IF HasOperator(expr)
    THEN Do([deps \in {_extract_column_refs(expr, context_tables)} |->
           Analysis("ARITHMETIC", deps, expr, TablesOf(deps, context_tables),
                    ColumnsOf(deps))])
    ELSE IF col_match.ok
    THEN Do([table_alias \in {Upper(StripBrackets(Group(expr, col_match, 1)))} |->
         Do([col_name \in {Upper(StripBrackets(Group(expr, col_match, 2)))} |->
           Analysis("COLUMN", << <<table_alias, col_name>> >>,
                    table_alias \o "." \o col_name,
                    {ContextTable(context_tables, table_alias)}, {col_name})])])
    ELSE IF IsLiteral(expr) THEN Analysis("LITERAL", <<>>, expr, {}, {})
    ELSE IF ReMatch(UnqualifiedColumnPattern, expr, {}).ok
    THEN Do([clean_col \in {Upper(StripBrackets(expr))} |->
           Analysis("COLUMN", << <<None, clean_col>> >>, clean_col, {}, {clean_col})])
    ELSE Do([deps \in {_extract_column_refs(expr, context_tables)} |->
           Analysis("UNKNOWN", deps, expr, TablesOf(deps, context_tables),
                    ColumnsOf(deps))])])])])

\* 'SUBQUERY::' + alias, and table_name.split('::')[1]
SubqueryTable(alias) == "SUBQUERY::" \o alias
IsSubqueryTable(table_name) == StartsWith(table_name, "SUBQUERY::")
SubqueryAlias(table_name) == SplitOnce(SplitOnce(table_name, "::")[2], "::")[1]

Resolved(source_table, source_column) ==
  [source_table |-> source_table, source_column |-> source_column]

\* the scope a table name stands for (908-918)
Scope(table_name) ==
  IF IsSubqueryTable(table_name) THEN SubqueryAlias(table_name) ELSE table_name

\* the single table of the statement (890-904)
ResolvedInTable(col_name, table_name, subquery_mappings) ==
  Do([sub_mapping \in {DictGet(subquery_mappings, table_name)} |->
    IF DictHas(subquery_mappings, table_name) /\ DictHas(sub_mapping, col_name)
    THEN DictGet(sub_mapping, col_name)
    ELSE IF DictHas(subquery_mappings, table_name) /\ DictHas(sub_mapping, "*")
    THEN DictGet(sub_mapping, "*")
    ELSE Resolved(table_name, col_name)])

\* the sentinel of a column that no table of the statement resolves (929-932)
Ambiguous(real_tables, col_name) == Resolved("Ambiguous", col_name)

\* the first physical table of the statement, assumed to hold a column that
\* no scope contains (919-927)
AssumedPrimary(real_tables, col_name) ==
  [logic_breakdown |-> "Assumed from Primary Table (" \o real_tables[1] \o ")"]
    @@ Resolved(real_tables[1], col_name)

\* sql_parser.py 879-932
_resolve_unqualified_column(col_name, table_aliases, subquery_mappings) ==
  Do([tables \in {DictValues(table_aliases)} |->
  Do([real_tables \in {SelectSeq(tables, LAMBDA t : ~IsSubqueryTable(t))} |->
  Do([hit \in {FirstIdx(LAMBDA table_name :
                 /\ DictHas(subquery_mappings, Scope(table_name))
                 /\ DictHas(DictGet(subquery_mappings, Scope(table_name)), col_name),
               tables)} |->
    IF Len(real_tables) = 1
    THEN ResolvedInTable(col_name, real_tables[1], subquery_mappings)
    ELSE IF hit # 0
    THEN DictGet(DictGet(subquery_mappings, Scope(tables[hit])), col_name)
    ELSE IF real_tables # <<>> THEN AssumedPrimary(real_tables, col_name)
    ELSE Ambiguous(real_tables, col_name)])])])

\* the table the alias is bound to, no scope looked up
AliasedTable(table_ref, col_name, table_aliases, subquery_mappings) ==
  Resolved(IF DictHas(table_aliases, table_ref) THEN DictGet(table_aliases, table_ref)
           ELSE table_ref,
           col_name)

\* sql_parser.py 934-987
_resolve_qualified_column(table_ref, col_name, table_aliases, subquery_mappings) ==
  Do([direct \in {DictGet(subquery_mappings, table_ref)} |->
  Do([table_name \in {DictGet(table_aliases, table_ref)} |->
  Do([real_alias \in {IF DictHas(table_aliases, table_ref) /\ IsSubqueryTable(table_name)
      THEN SubqueryAlias(table_name) ELSE None} |->
  Do([aliased \in {DictGet(subquery_mappings, real_alias)} |->
  Do([named \in {DictGet(subquery_mappings, table_name)} |->
    IF DictHas(subquery_mappings, table_ref) /\ DictHas(direct, col_name)
    THEN DictGet(direct, col_name)
    ELSE IF DictHas(subquery_mappings, table_ref) /\ DictHas(direct, "*")
    THEN Resolved(DictGet(direct, "*").source_table, col_name)
    ELSE IF DictHas(table_aliases, table_ref)
    THEN IF IsSubqueryTable(table_name)
         THEN IF DictHas(subquery_mappings, real_alias) /\ DictHas(aliased, col_name)
              THEN DictGet(aliased, col_name)
              ELSE IF DictHas(subquery_mappings, real_alias) /\ DictHas(aliased, "*")
              THEN Resolved(DictGet(aliased, "*").source_table, col_name)
              ELSE Resolved(table_name, col_name)
         ELSE IF DictHas(subquery_mappings, table_name) /\ DictHas(named, col_name)
         THEN DictGet(named, col_name)
         ELSE Resolved(table_name, col_name)
    ELSE Resolved(table_ref, col_name)])])])])])

Mapping(source_table, source_column, expression, expression_type, dependencies,
        logic_breakdown) ==
  [source_table |-> source_table, source_column |-> source_column,
   expression |-> expression, expression_type |-> expression_type,
   dependencies |-> dependencies, logic_breakdown |-> logic_breakdown]

NotParsed == [ok |-> FALSE]

\* what a dependency resolves to (823-846)
ResolvedDep(d, table_aliases, subquery_mappings) ==
  IF d[1] = None
  THEN _resolve_unqualified_column(d[2], table_aliases, subquery_mappings)
  ELSE _resolve_qualified_column(d[1], d[2], table_aliases, subquery_mappings)

\* the alias written in a token and the expression it names (787-813):
\* [col_alias, col_expr], col_alias "" when none is written
WrittenAlias(token) ==
  Do([parts \in {SplitOnce(token, "=")} |->
  Do([potential_alias \in {Strip(parts[1])} |->
  \* pattern 1: alias = expression
  Do([assigned \in {/\ Contains(token, "=") /\ ~StartsWith(token, "'")
      /\ ~Contains(potential_alias, " ") /\ ~Contains(potential_alias, "(")} |->
  \* pattern 2: expression AS alias
  Do([alias_match \in {Search(ColumnAliasPattern, token, {"I"})} |->
  Do([found_alias \in {IF alias_match.ok THEN Group(token, alias_match, 1) ELSE None} |->
  Do([suffixed \in {/\ ~(assigned /\ potential_alias # "") /\ alias_match.ok
      /\ Upper(found_alias) \notin {"END", "AS", "AND", "OR", "IS", "NULL", "NOT"}} |->
    IF suffixed
    THEN [col_alias |-> found_alias,
          col_expr |-> Strip(Slice(token, 0, alias_match.start))]
    ELSE IF assigned
    THEN [col_alias |-> potential_alias, col_expr |-> Strip(parts[2])]
    ELSE [col_alias |-> "", col_expr |-> token]])])])])])])

\* the alias of the column: the written one or the default (815-820)
AliasOf(written) ==
  IF written.col_alias # "" THEN written.col_alias
  ELSE IF Contains(written.col_expr, ".")
  THEN StripBrackets(LastPart(written.col_expr, "."))
  ELSE StripBrackets(written.col_expr)

\* the result built from the analysis of the expression (825-877)
ColumnResult(original_token, col_alias, expr_analysis, table_aliases, subquery_mappings) ==
  Do([resolved \in {[k \in DOMAIN expr_analysis.dependencies |->
         ResolvedDep(expr_analysis.dependencies[k], table_aliases, subquery_mappings)]} |->
  Do([source_tables \in {{resolved[k].source_table : k \in DOMAIN resolved}} |->
  Do([source_columns \in {{resolved[k].source_column : k \in DOMAIN resolved}} |->
  Do([res_table \in {IF source_tables # {} THEN JoinStr(Sorted(source_tables), ", ")
      ELSE IF expr_analysis.type = "LITERAL" THEN "Static Value"
      ELSE "Calculation"} |->
  Do([clean_val \in {Strip(original_token)} |->
  Do([joined_columns \in {JoinStr(Sorted(source_columns), ", ")} |->
  Do([res_col \in {IF source_columns # {} /\ joined_columns # "" THEN joined_columns
      ELSE IF Len(clean_val) < 50 THEN clean_val
      ELSE Slice(clean_val, 0, 47) \o "..."} |->
    [ok |-> TRUE, alias |-> Upper(StripBrackets(col_alias)),
     mapping |-> Mapping(res_table, res_col, original_token, expr_analysis.type,
                         expr_analysis.dependencies, expr_analysis.logic)]])])])])])])])

\* sql_parser.py 774-877: [ok, alias, mapping], ok false for the return of None
_parse_column_token(original_token, table_aliases, subquery_mappings) ==
  IF original_token = "" \/ Strip(original_token) = "*" THEN NotParsed
  ELSE Do([written \in {WrittenAlias(Upper(Strip(original_token)))} |->
       Do([expr_analysis \in {decompose_expression(written.col_expr, table_aliases)} |->
         ColumnResult(original_token, AliasOf(written), expr_analysis, table_aliases,
                      subquery_mappings)])])

\* sql_parser.py 989-1031
_expand_select_star(table_aliases, subquery_mappings) ==
  Do([candidates \in {DictValues(table_aliases)} |->
    IF Len(candidates) # 1 THEN <<>>
    ELSE Do([table_name \in {candidates[1]} |->
         Do([real_alias \in {Scope(table_name)} |->
         Do([result \in {IF DictHas(subquery_mappings, real_alias)
             THEN SelectSeq(DictGet(subquery_mappings, real_alias), LAMBDA kv : kv[1] # "*")
             ELSE <<>>} |->
           IF result = <<>> /\ ~IsSubqueryTable(table_name)
           THEN << <<"*", Mapping(table_name, "*", "SELECT *", "WILDCARD", <<>>,
                                  "All columns from " \o table_name)>> >>
           ELSE result])])])])

RECURSIVE AliasesOf(_, _, _)
\* the for loop of _parse_table_aliases (736-747) over the matches ms
AliasesOf(sql, ms, table_aliases) ==
  IF ms = <<>> THEN table_aliases
  ELSE Do([table_name \in {Upper(StripBrackets(Group(sql, Head(ms), 1)))} |->
       Do([alias_group \in {Group(sql, Head(ms), 2)} |->
       Do([named \in {IF alias_group # None /\ alias_group # "" THEN Upper(alias_group) ELSE table_name} |->
       Do([alias \in {IF named \in {"LEFT", "RIGHT", "INNER", "OUTER", "JOIN", "ON", "WHERE",
                         "GROUP", "ORDER", "BY", "SELECT", "FROM",
                         "DERIVED_TABLE_MASK", "SCALAR_SUBQUERY_MASK"}
           THEN table_name ELSE named} |->
         AliasesOf(sql, Tail(ms),
                   IF DictHas(table_aliases, alias) THEN table_aliases
                   ELSE DictPut(table_aliases, alias, table_name))])])])])

\* sql_parser.py 725-749
_parse_table_aliases(sql, subquery_mappings) ==
  AliasesOf(sql, FindIter(TableAliasPattern, sql, {"I"}),
            [k \in DOMAIN subquery_mappings |->
               <<subquery_mappings[k][1], SubqueryTable(subquery_mappings[k][1])>>])

\* one round of the while loop of _extract_select_clause (762-770)
SelectClauseStep(sql, st) ==
  LET char == At(sql, st.i)
  IN IF char = "(" THEN [st EXCEPT !.depth = @ + 1, !.i = @ + 1]
     ELSE IF char = ")" THEN [st EXCEPT !.depth = @ - 1, !.i = @ + 1]
     ELSE IF /\ st.depth = 0 /\ Upper(Slice(sql, st.i, st.i + 4)) = "FROM"
             /\ (st.i = 0 \/ ~IsAlnum(At(sql, st.i - 1)))
     THEN [st EXCEPT !.returned = TRUE]
     ELSE [st EXCEPT !.i = @ + 1]

\* sql_parser.py 751-772
_extract_select_clause(sql) ==
  Do([match \in {Search(SelectPattern, sql, {"I"})} |->
    IF ~match.ok THEN ""
    ELSE Strip(Slice(sql, match.end,
                     While(LAMBDA s : SelectClauseStep(sql, s),
                           LAMBDA s : ~s.returned /\ s.i < Len(sql),
                           [i |-> match.end, depth |-> 0, returned |-> FALSE], Len(sql)).i))])

\* the test of a top-level UNION at position i (654-657, 675-677)
UnionAt(sql, i, depth) ==
  /\ depth = 0
  /\ Slice(sql, i, i + 5) = "UNION"
  /\ (i = 0 \/ ~IsAlnum(At(sql, i - 1)))
  /\ (i + 5 >= Len(sql) \/ ~IsAlnum(At(sql, i + 5)))

\* one round of the while loop of _contains_union (649-659)
ContainsUnionStep(sql, st) ==
  LET char == At(sql, st.i)
  IN IF char = "(" THEN [st EXCEPT !.depth = @ + 1, !.i = @ + 1]
     ELSE IF char = ")" THEN [st EXCEPT !.depth = @ - 1, !.i = @ + 1]
     ELSE IF UnionAt(sql, st.i, st.depth) THEN [st EXCEPT !.returned = TRUE]
     ELSE [st EXCEPT !.i = @ + 1]

\* sql_parser.py 645-660
_contains_union(sql) ==
  While(LAMBDA s : ContainsUnionStep(sql, s), LAMBDA s : ~s.returned /\ s.i < Len(sql),
        [i |-> 0, depth |-> 0, returned |-> FALSE], Len(sql)).returned

\* one round of the while loop of _parse_union (670-684)
BranchStep(sql, st) ==
  LET char == At(sql, st.i)
      next_pos == st.i + 5
      start == IF Upper(Strip(Slice(sql, next_pos, next_pos + 4))) = "ALL"
               THEN next_pos + 4 ELSE next_pos
  IN IF char = "(" THEN [st EXCEPT !.depth = @ + 1, !.i = @ + 1]
     ELSE IF char = ")" THEN [st EXCEPT !.depth = @ - 1, !.i = @ + 1]
     ELSE IF UnionAt(sql, st.i, st.depth)
     THEN [st EXCEPT !.branches = Append(@, Strip(Slice(sql, st.start, st.i))),
                     !.start = start, !.i = @ + 1]
     ELSE [st EXCEPT !.i = @ + 1]

\* the branches of a UNION (665-688)
UnionBranches(sql) ==
  Do([st \in {While(LAMBDA s : BranchStep(sql, s), LAMBDA s : s.i < Len(sql),
            [i |-> 0, depth |-> 0, start |-> 0, branches |-> <<>>], Len(sql))} |->
    IF st.start < Len(sql) THEN Append(st.branches, Strip(From(sql, st.start)))
    ELSE st.branches])

\* the merged entry of one alias of the first branch (704-719)
Merged(branch_results, col_alias, col_data) ==
  Do([having \in {SelectSeq(branch_results, LAMBDA r : DictHas(r, col_alias))} |->
  Do([all_sources \in {[k \in DOMAIN having |-> DictGet(having[k], col_alias).source_table]} |->
  Do([all_source_cols \in {{DictGet(r, col_alias).source_column : r \in Range(having)}} |->
    Mapping(JoinStr(SelectSeq(all_sources, LAMBDA t : t # "N/A"), " UNION "),
            JoinStr(SetIteration(all_source_cols), " UNION "),
            col_data.expression, "UNION", col_data.dependencies,
            "UNION of " \o ToString(Len(branch_results)) \o " branches")])])])

\* the merge of the branch results (697-721)
MergedUnion(branch_results) ==
  [k \in DOMAIN branch_results[1] |->
     <<branch_results[1][k][1],
       Merged(branch_results, branch_results[1][k][1], branch_results[1][k][2])>>]

\* the instance's _parse_cache is threaded through the operators that read
\* or write it: each takes the cache and returns it with its result
RECURSIVE parse_sql_deep(_, _)

RECURSIVE ParseEach(_, _)
\* parse_sql_deep of each text in turn (692-694): [results, cache]
ParseEach(texts, cache) ==
  IF texts = <<>> THEN [results |-> <<>>, cache |-> cache]
  ELSE Do([r \in {parse_sql_deep(Head(texts), cache)} |->
       Do([rest \in {ParseEach(Tail(texts), r.cache)} |->
         [results |-> <<r.result>> \o rest.results, cache |-> rest.cache]])])

\* sql_parser.py 662-723; cte_mappings is not used
_parse_union(sql, cte_mappings, cache) ==
  Do([parsed \in {ParseEach(UnionBranches(sql), cache)} |->
    [result |-> IF parsed.results = <<>> THEN <<>> ELSE MergedUnion(parsed.results),
     cache |-> parsed.cache]])

\* one round of the while loop that removes DECLARE statements (439-445)
DeclareStep(sql) ==
  Do([semicolon \in {Find(sql, ";", 0)} |->
    IF semicolon >= 0 THEN Strip(From(sql, semicolon + 1))
    ELSE Do([lines \in {SplitOnce(sql, "\n")} |->
           IF Len(lines) > 1 THEN Strip(lines[2]) ELSE ""])])

\* one round of the while loop that looks for the main SELECT (458-466)
MainSelectStep(sql, st) ==
  LET char == At(sql, st.i)
  IN IF char = "(" THEN [st EXCEPT !.depth = @ + 1, !.i = @ + 1]
     ELSE IF char = ")" THEN [st EXCEPT !.depth = @ - 1, !.i = @ + 1]
     ELSE IF st.depth = 0 /\ Upper(Slice(sql, st.i, st.i + 6)) = "SELECT"
     THEN [st EXCEPT !.found = TRUE]
     ELSE [st EXCEPT !.i = @ + 1]

\* one round of the while loop over the CTEs (477-493)
CteStep(cte_section, st) ==
  Do([name_match \in {Search(CteNamePattern, From(cte_section, st.pos), {"I"})} |->
    IF ~name_match.ok THEN [st EXCEPT !.broken = TRUE]
    ELSE Do([cte_name \in {Upper(Group(From(cte_section, st.pos), name_match, 1))} |->
         Do([paren_start \in {st.pos + name_match.end - 1} |->
         Do([content \in {_extract_balanced_parens(cte_section, paren_start)} |->
           IF content[1] = "" THEN [st EXCEPT !.pos = content[2] + 1]
           ELSE Do([parsed \in {parse_sql_deep(content[1], st.cache)} |->
                  [st EXCEPT !.cte_mappings = DictPut(@, cte_name, parsed.result),
                             !.cache = parsed.cache, !.pos = content[2] + 1]])])])])])

\* sql_parser.py 433-495: [cte_mappings, sql, cache]
_extract_ctes(text, cache) ==
  Do([sql \in {While(DeclareStep, LAMBDA s : ReMatch(DeclarePattern, s, {"I"}).ok,
            Strip(text), Len(text) + 1)} |->
  Do([with_match \in {ReMatch(WithPattern, sql, {"I"})} |->
    IF ~with_match.ok THEN [cte_mappings |-> <<>>, sql |-> sql, cache |-> cache]
    ELSE Do([cte_start \in {with_match.end} |->
         Do([main \in {While(LAMBDA s : MainSelectStep(sql, s), LAMBDA s : ~s.found /\ s.i < Len(sql),
                   [i |-> cte_start, depth |-> 0, found |-> FALSE], Len(sql))} |->
           IF ~main.found THEN [cte_mappings |-> <<>>, sql |-> sql, cache |-> cache]
           ELSE Do([cte_section \in {Slice(sql, cte_start, main.i)} |->
                Do([ctes \in {While(LAMBDA s : CteStep(cte_section, s),
                          LAMBDA s : ~s.broken /\ s.pos < Len(cte_section),
                          [pos |-> 0, cte_mappings |-> <<>>, cache |-> cache,
                           broken |-> FALSE],
                          Len(cte_section))} |->
                  [cte_mappings |-> ctes.cte_mappings, sql |-> From(sql, main.i),
                   cache |-> ctes.cache]])])])])])])

max_iterations == 20

\* the subquery follows FROM, JOIN, APPLY, UPDATE or INTO (513-522)
IsDerived(prefix) ==
  Do([last_word_match \in {Search(LastWordPattern, prefix, {})} |->
    /\ prefix # ""
    /\ last_word_match.ok
    /\ Upper(Group(prefix, last_word_match, 1)) \in {"FROM", "JOIN", "APPLY", "UPDATE", "INTO"}])

\* the alias that follows the subquery closed at end_pos, or None (529-538)
DerivedAlias(masked_sql, end_pos) ==
  Do([remainder \in {IF end_pos + 1 < Len(masked_sql) THEN From(masked_sql, end_pos + 1) ELSE ""} |->
  Do([alias_match \in {ReMatch(DerivedAliasPattern, remainder, {"I"})} |->
    IF ~alias_match.ok THEN None
    ELSE Do([found_alias \in {Upper(Group(remainder, alias_match, 1))} |->
           IF found_alias \in {"ON", "JOIN", "LEFT", "RIGHT", "WHERE", "ORDER", "GROUP"}
           THEN None ELSE found_alias])])])

\* one round of the while loop of _extract_derived_tables (505-552)
DerivedStep(st) ==
  Do([masked_sql \in {st.masked_sql} |->
  Do([match \in {Search(SubqueryPattern, masked_sql, {"I"})} |->
    IF ~match.ok THEN [st EXCEPT !.iteration = @ + 1, !.broken = TRUE]
    ELSE Do([is_derived \in {IsDerived(Strip(Slice(masked_sql, 0, match.start)))} |->
         Do([inner \in {_extract_balanced_parens(masked_sql, match.start)} |->
         Do([inner_sql \in {inner[1]} |->
         Do([end_pos \in {inner[2]} |->
           IF inner_sql = "" THEN [st EXCEPT !.iteration = @ + 1, !.broken = TRUE]
           ELSE Do([derived_alias \in {IF is_derived THEN DerivedAlias(masked_sql, end_pos) ELSE None} |->
                Do([masked \in {Slice(masked_sql, 0, match.start)
                      \o (IF is_derived THEN " (DERIVED_TABLE_MASK) "
                          ELSE " (SCALAR_SUBQUERY_MASK) ")
                      \o From(masked_sql, end_pos + 1)} |->
                  IF derived_alias = None
                  THEN [st EXCEPT !.iteration = @ + 1, !.masked_sql = masked]
                  ELSE Do([parsed \in {parse_sql_deep(inner_sql, st.cache)} |->
                         [st EXCEPT !.iteration = @ + 1, !.masked_sql = masked,
                                    !.cache = parsed.cache,
                                    !.derived_mappings =
                                      DictPut(@, derived_alias, parsed.result)]])])])])])])])])])

\* sql_parser.py 497-554: [derived_mappings, masked_sql, cache]
_extract_derived_tables(sql, cache) ==
  While(DerivedStep, LAMBDA s : ~s.broken /\ s.iteration < max_iterations,
        [iteration |-> 0, masked_sql |-> sql, derived_mappings |-> <<>>, cache |-> cache,
         broken |-> FALSE],
        max_iterations)

CacheKeyLength == 200

\* the result of the EXEC of a stored procedure (586-598)
ProcedureResult(sql_clean) ==
  Do([parts \in {SplitWords(sql_clean)} |->
  Do([proc_name \in {IF Len(parts) > 1 THEN parts[2] ELSE "UNKNOWN_PROC"} |->
    << <<"*", Mapping(proc_name, "*", "Stored Procedure Result", "PROCEDURE", <<>>,
                      "Result from " \o proc_name)>> >>])])

RECURSIVE ColumnMappingsOf(_, _, _, _)
\* the for loop over the tokens of the select list (625-633)
ColumnMappingsOf(column_tokens, table_aliases, all_subqueries, column_mappings) ==
  IF column_tokens = <<>> THEN column_mappings
  ELSE Do([col_result \in {_parse_column_token(Head(column_tokens), table_aliases, all_subqueries)} |->
         ColumnMappingsOf(Tail(column_tokens), table_aliases, all_subqueries,
                          IF col_result.ok
                          THEN DictPut(column_mappings, col_result.alias, col_result.mapping)
                          ELSE column_mappings)])

\* sql_parser.py 556-643: [result, cache]
parse_sql_deep(sql_query, cache) ==
  IF sql_query = "" \/ sql_query = "N/A" THEN [result |-> <<>>, cache |-> cache]
  ELSE
  Do([cache_key \in {Slice(sql_query, 0, CacheKeyLength)} |->
    IF DictHas(cache, cache_key) THEN [result |-> DictGet(cache, cache_key), cache |-> cache]
    ELSE
    Do([sql_clean \in {Strip(Upper(_clean_sql_comments(_resolve_variables(sql_query))))} |->
      IF StartsWith(sql_clean, "EXEC")
      THEN [result |-> ProcedureResult(sql_clean), cache |-> cache]
      ELSE
      Do([ctes \in {_extract_ctes(sql_clean, cache)} |->
        IF _contains_union(ctes.sql)
        THEN _parse_union(ctes.sql, ctes.cte_mappings, ctes.cache)
        ELSE
        Do([derived \in {_extract_derived_tables(ctes.sql, ctes.cache)} |->
        Do([all_subqueries \in {DictUpdate(ctes.cte_mappings, derived.derived_mappings)} |->
        Do([table_aliases \in {_parse_table_aliases(derived.masked_sql, all_subqueries)} |->
        Do([select_clause \in {_extract_select_clause(derived.masked_sql)} |->
          IF select_clause = "" THEN [result |-> <<>>, cache |-> derived.cache]
          ELSE
          Do([column_tokens \in {_tokenize_select_list(select_clause)} |->
          Do([columns \in {ColumnMappingsOf(column_tokens, table_aliases, all_subqueries, <<>>)} |->
          Do([column_mappings \in {IF \E k \in DOMAIN column_tokens : Strip(column_tokens[k]) = "*"
              THEN DictUpdate(columns, _expand_select_star(table_aliases, all_subqueries))
              ELSE columns} |->
            [result |-> column_mappings,
             cache |-> DictPut(derived.cache, cache_key, column_mappings)]
          ])])])])])])])])])])

JoinCondition(left_table_alias, left, right_table_alias, right, join_type, condition) ==
  [left_table_alias |-> left_table_alias, left_table |-> left.source_table,
   left_column |-> left.source_column, right_table_alias |-> right_table_alias,
   right_table |-> right.source_table, right_column |-> right.source_column,
   join_type |-> join_type, condition |-> condition]

\* the condition of one match of col_pairs_pattern (1085-1111)
ConditionOfPair(condition, m, join_type, table_aliases, all_subqueries) ==
  Do([parts_left \in {SplitOnce(Group(condition, m, 1), ".")} |->
  Do([parts_right \in {SplitOnce(Group(condition, m, 2), ".")} |->
    JoinCondition(
      parts_left[1],
      _resolve_qualified_column(parts_left[1], parts_left[2], table_aliases, all_subqueries),
      parts_right[1],
      _resolve_qualified_column(parts_right[1], parts_right[2], table_aliases,
                                all_subqueries),
      join_type, condition)])])

\* the conditions of one match of join_pattern (1069-1111)
ConditionsOfJoin(sql_masked, match, table_aliases, all_subqueries) ==
  Do([first \in {Group(sql_masked, match, 1)} |->
  Do([join_type \in {Upper(IF first # None /\ first # "" THEN first ELSE "INNER")} |->
  Do([condition \in {Strip(Group(sql_masked, match, 3))} |->
    FlatMap(LAMBDA m : <<ConditionOfPair(condition, m, join_type, table_aliases,
                                         all_subqueries)>>,
            FindIter(col_pairs_pattern, condition, {"I"}))])])])

\* sql_parser.py 1033-1113: [result, cache]
extract_join_conditions(sql_query, cache) ==
  IF sql_query = "" \/ sql_query = "N/A" THEN [result |-> <<>>, cache |-> cache]
  ELSE
  Do([sql_clean \in {Strip(Upper(_clean_sql_comments(_resolve_variables(sql_query))))} |->
  Do([ctes \in {_extract_ctes(sql_clean, cache)} |->
  Do([derived \in {_extract_derived_tables(ctes.sql, ctes.cache)} |->
  Do([all_subqueries \in {DictUpdate(ctes.cte_mappings, derived.derived_mappings)} |->
  Do([table_aliases \in {_parse_table_aliases(derived.masked_sql, all_subqueries)} |->
    [result |-> FlatMap(LAMBDA m : ConditionsOfJoin(derived.masked_sql, m, table_aliases,
                                                    all_subqueries),
                        FindIter(join_pattern, derived.masked_sql, {"S", "I"})),
     cache |-> derived.cache]])])])])])

(***************************************************************************)
(* Statements                                                              *)
(***************************************************************************)
RECURSIVE Repeat(_, _)
\* s * n
Repeat(s, n) ==
  IF n <= 0 THEN ""
  ELSE IF n = 1 THEN s
  ELSE Repeat(s, n \div 2) \o Repeat(s, n - n \div 2)

\* SELECT <columns> FROM <table>: one FROM table, unqualified columns
SelectFrom(columns, table) ==
  "SELECT " \o JoinStr(columns, ", ") \o " FROM " \o table

SingleTableQueries ==
  { [columns |-> <<"x", "y">>, table |-> "T1"],
    [columns |-> <<"x", "y">>, table |-> "Rates"],
    [columns |-> <<"VALID_FROM", "rate">>, table |-> "Rates"] }

\* a join of T1 a and T2 b on a.id=b.id, with or without a qualifier before
\* JOIN and with or without a clause after the ON condition
JoinOn(qualifier, tail) ==
  "SELECT a.x, b.y FROM T1 a " \o qualifier \o "JOIN T2 b ON a.id=b.id" \o tail

JoinQueries ==
  { [qualifier |-> q, tail |-> t] : q \in {"", "LEFT "}, t \in {"", " WHERE a.x>1"} }

\* a SELECT longer than the cache key
LongSelect ==
  "SELECT X FROM T1 WHERE K > 0"
    \o Repeat(" AND K > 0", CacheKeyLength \div Len(" AND K > 0"))

\* a UNION whose first branch is LongSelect: the two statements are the same
\* in their first CacheKeyLength characters
LongUnion == LongSelect \o " UNION SELECT X FROM T2"

\* top-level UNIONs of SELECTs of one column, with the alias of the first
\* branch and the tables of the alias over the branches, deduplicated,
\* sorted and joined with commas
UnionQueries ==
  { [statement |-> "SELECT x FROM T1 UNION SELECT x FROM T2",
     aliases |-> {"X"}, source_table |-> "T1, T2"],
    [statement |-> "SELECT x FROM T2 UNION ALL SELECT x FROM T1 UNION SELECT x FROM T2",
     aliases |-> {"X"}, source_table |-> "T1, T2"] }

\* the statement of a CTE C over table T, and statements that refer to C in
\* a main SELECT, in the branches of a top-level UNION, and in the body of a
\* later CTE; alias is the alias the reference is selected under
CteC == "WITH C AS (SELECT col1 AS A FROM T)"

CteQueries ==
  { [statement |-> CteC \o " SELECT c.A FROM C c", alias |-> "A", place |-> "main"],
    [statement |-> CteC \o " SELECT c.A FROM C c UNION SELECT c.A FROM C c",
     alias |-> "A", place |-> "union"],
    [statement |-> CteC \o ", D AS (SELECT c.A AS B FROM C c) SELECT d.B FROM D d",
     alias |-> "B", place |-> "cte"] }

\* statements that select one unqualified column from two tables: two CTEs
\* or two physical tables.  scope_table and scope_column are what the column
\* is in the ColumnMap of the scope that contains it, None when no scope
\* does; physical is the physical tables of the statement in FROM order
TwoScopes(column) ==
  CteC \o ", D AS (SELECT col2 AS B FROM U) SELECT " \o column
    \o " FROM C JOIN D ON C.A=D.B"

UnqualifiedQueries ==
  { [statement |-> TwoScopes("B"), column |-> "B",
     scope_table |-> "U", scope_column |-> "COL2", physical |-> <<>>],
    [statement |-> TwoScopes("Z"), column |-> "Z",
     scope_table |-> None, scope_column |-> None, physical |-> <<>>],
    [statement |-> "SELECT x FROM T1 a JOIN T2 b ON a.id=b.id", column |-> "X",
     scope_table |-> None, scope_column |-> None, physical |-> <<"T1", "T2">>],
    [statement |-> "SELECT x FROM T2 b JOIN T1 a ON a.id=b.id", column |-> "X",
     scope_table |-> None, scope_column |-> None, physical |-> <<"T2", "T1">>] }

\* the other statement kinds: EXEC and derived table
OtherStatements ==
  { "EXEC dbo.GetRows",
    LongSelect,
    LongUnion,
    "SELECT d.x FROM (SELECT x FROM T1) d" }

Statements ==
  {SelectFrom(q.columns, q.table) : q \in SingleTableQueries}
    \cup {JoinOn(q.qualifier, q.tail) : q \in JoinQueries}
    \cup {q.statement : q \in UnionQueries}
    \cup {q.statement : q \in CteQueries}
    \cup {q.statement : q \in UnqualifiedQueries}
    \cup OtherStatements

\* the statements extract_join_conditions is called on: the joins, and one
\* statement without a join
JoinStatements ==
  {JoinOn(q.qualifier, q.tail) : q \in JoinQueries}
    \cup {SelectFrom(<<"x", "y">>, "T1")}

(***************************************************************************)
(* The state machine: one call of get_column_lineage on the package,       *)
(* followed by get_unused_columns.                                         *)
(***************************************************************************)
VARIABLES
  package,          \* the pipeline snapshot
  pc,               \* "for", "while", "returned", "reported", "raised"
  dft,              \* index of the task of the for loop (app.py 609)
  in_degree,        \* in_degree of the current task
  queue,            \* the Kahn queue of the current task
  lineage_id_map,   \* LineageID -> list of entries, of the current task
  processed_count,  \* app.py 676
  lineage_results,  \* the rows appended so far
  result,           \* what get_column_lineage returned
  errors,           \* the messages get_column_lineage printed
  unused_report,    \* what get_unused_columns returned
  processed,        \* ghost: the components dequeued in the current task, in order
  row_dft,          \* ghost: for each row, the index of the task that emitted it
  parse_cache,      \* EnhancedSQLParser._parse_cache (sql_parser.py 20)
  sql_calls         \* ghost: the calls made on the parser, with what they returned

lineage_vars == <<package, pc, dft, in_degree, queue, lineage_id_map, processed_count,
                  lineage_results, result, errors, unused_report, processed, row_dft>>

resolver_vars == <<hash_seed, parse_cache, sql_calls>>

vars == <<lineage_vars, resolver_vars>>

CurrentTask == package[dft]

Init ==
  /\ package \in Packages
  /\ pc = "for"
  /\ dft = 1
  /\ in_degree = EmptyMap
  /\ queue = <<>>
  /\ lineage_id_map = EmptyMap
  /\ processed_count = 0
  /\ lineage_results = <<>>
  /\ result = <<>>
  /\ errors = <<>>
  /\ unused_report = <<>>
  /\ processed = <<>>
  /\ row_dft = <<>>
  /\ hash_seed = 0
  /\ parse_cache = <<>>
  /\ sql_calls = <<>>

\* a lineage map that keeps the lists of the task before
KeptLineageMap(previous) == previous

\* lineage_id_map = defaultdict(list) (app.py 666), whatever the map of the
\* task before was
FreshLineageMap(previous) == EmptyMap

\* app.py 609-676: the next task's graph, an empty lineage map, the queue of
\* the components of in-degree 0
StartTask ==
  /\ pc = "for"
  /\ dft <= Len(package)
  /\ ~GetDataflowSourcesRaises(package)
  /\ in_degree' = InitialInDegree(CurrentTask)
  /\ queue' = InitialQueue(CurrentTask)
  /\ lineage_id_map' = FreshLineageMap(lineage_id_map)
  /\ processed_count' = 0
  /\ processed' = <<>>
  /\ pc' = "while"
  /\ UNCHANGED <<package, dft, lineage_results, result, errors, unused_report, row_dft>>
  /\ UNCHANGED resolver_vars

\* app.py 673 raises inside the try of get_column_lineage (app.py 1036-1040):
\* the message is printed and [] is returned
TraceRaises ==
  /\ pc = "for"
  /\ dft <= Len(package)
  /\ GetDataflowSourcesRaises(package)
  /\ errors' = Append(errors, "Graph Lineage Failed")
  /\ result' = ResultOnRaise(lineage_results)
  /\ pc' = "returned"
  /\ UNCHANGED <<package, dft, in_degree, queue, lineage_id_map, processed_count,
                 lineage_results, unused_report, processed, row_dft>>
  /\ UNCHANGED resolver_vars

\* an iteration of the while loop raises inside the try of
\* get_column_lineage (app.py 1036-1040): the message is printed and [] is
\* returned.  lineage_results keeps, as a ghost, the rows appended before.
ComponentRaisesInLoop ==
  /\ pc = "while"
  /\ queue # <<>>
  /\ ComponentRaises(CurrentTask, CompOf(CurrentTask, Head(queue)),
                     SourceConfigMap(package, CurrentTask.name), lineage_id_map)
  /\ errors' = Append(errors, "Graph Lineage Failed")
  /\ result' = ResultOnRaise(lineage_results)
  /\ pc' = "returned"
  /\ UNCHANGED <<package, dft, in_degree, queue, lineage_id_map, processed_count,
                 lineage_results, unused_report, processed, row_dft>>
  /\ UNCHANGED resolver_vars

\* app.py 677-1030: one iteration of the while loop
ProcessComponent ==
  /\ pc = "while"
  /\ queue # <<>>
  /\ ~ComponentRaises(CurrentTask, CompOf(CurrentTask, Head(queue)),
                      SourceConfigMap(package, CurrentTask.name), lineage_id_map)
  /\ LET cid    == Head(queue)
         comp   == CompOf(CurrentTask, cid)
         cfgmap == SourceConfigMap(package, CurrentTask.name)
         rows   == EmittedRows(CurrentTask, comp, cfgmap, lineage_id_map)
         pushed == PushDownstream(AdjList(CurrentTask, cid), in_degree, Tail(queue))
     IN /\ processed_count' = processed_count + 1
        /\ processed' = Append(processed, cid)
        /\ lineage_id_map' = ProcessedLineage(comp, cfgmap, lineage_id_map)
        /\ lineage_results' = lineage_results \o rows
        /\ row_dft' = row_dft \o [i \in DOMAIN rows |-> dft]
        /\ in_degree' = pushed[1]
        /\ queue' = pushed[2]
  /\ UNCHANGED <<package, pc, dft, result, errors, unused_report>>
  /\ UNCHANGED resolver_vars

\* the while loop ends on the empty queue; the for loop goes on
EndTask ==
  /\ pc = "while"
  /\ queue = <<>>
  /\ dft' = dft + 1
  /\ pc' = "for"
  /\ UNCHANGED <<package, in_degree, queue, lineage_id_map, processed_count,
                 lineage_results, result, errors, unused_report, processed, row_dft>>
  /\ UNCHANGED resolver_vars

\* app.py 1032, 1037
Return ==
  /\ pc = "for"
  /\ dft > Len(package)
  /\ result' = lineage_results
  /\ pc' = "returned"
  /\ UNCHANGED <<package, dft, in_degree, queue, lineage_id_map, processed_count,
                 lineage_results, errors, unused_report, processed, row_dft>>
  /\ UNCHANGED resolver_vars

\* get_unused_columns (app.py 1042-1130).  Its own call of get_dataflow_sources
\* (app.py 1047) is outside any try; its call of get_column_lineage returns
\* what the call before returned.
GetUnusedColumns ==
  /\ pc = "returned"
  /\ IF GetDataflowSourcesRaises(package)
     THEN /\ pc' = "raised"
          /\ UNCHANGED unused_report
     ELSE /\ pc' = "reported"
          /\ unused_report' = UnusedReport(get_dataflow_sources(package), result)
  /\ UNCHANGED <<package, dft, in_degree, queue, lineage_id_map, processed_count,
                 lineage_results, result, errors, processed, row_dft>>
  /\ UNCHANGED resolver_vars

Next ==
  \/ StartTask
  \/ TraceRaises
  \/ ProcessComponent
  \/ ComponentRaisesInLoop
  \/ EndTask
  \/ Return
  \/ GetUnusedColumns

Spec == Init /\ [][Next]_vars

(***************************************************************************)
(* The state machine of one EnhancedSQLParser instance: calls of           *)
(* parse_sql_deep and extract_join_conditions on statements, in any order. *)
(***************************************************************************)
\* the largest number of calls on the instance
MaxCalls == 2

\* EnhancedSQLParser.__init__ (sql_parser.py 17-20)
InitSQL ==
  /\ hash_seed \in {0, 1}
  /\ parse_cache = <<>>
  /\ sql_calls = <<>>
  /\ package = <<>>
  /\ pc = "idle"
  /\ dft = 1
  /\ in_degree = EmptyMap
  /\ queue = <<>>
  /\ lineage_id_map = EmptyMap
  /\ processed_count = 0
  /\ lineage_results = <<>>
  /\ result = <<>>
  /\ errors = <<>>
  /\ unused_report = <<>>
  /\ processed = <<>>
  /\ row_dft = <<>>

\* the return of a call: the instance keeps the cache, the caller the result
Called(method, statement, returned) ==
  /\ parse_cache' = returned.cache
  /\ sql_calls' = Append(sql_calls, [method |-> method,
                                     sql_query |-> statement,
                                     result |-> returned.result])

\* one call of parse_sql_deep (sql_parser.py 556-643)
ParseSqlDeep ==
  /\ Len(sql_calls) < MaxCalls
  /\ \E statement \in Statements :
       Called("parse_sql_deep", statement, parse_sql_deep(statement, parse_cache))
  /\ UNCHANGED <<hash_seed, lineage_vars>>

\* one call of extract_join_conditions (sql_parser.py 1033-1113)
ExtractJoinConditions ==
  /\ Len(sql_calls) < MaxCalls
  /\ \E statement \in JoinStatements :
       Called("extract_join_conditions", statement,
              extract_join_conditions(statement, parse_cache))
  /\ UNCHANGED <<hash_seed, lineage_vars>>

NextSQL ==
  \/ ParseSqlDeep
  \/ ExtractJoinConditions

SpecSQL == InitSQL /\ [][NextSQL]_vars

(***************************************************************************)
(* The helper methods of EnhancedSQLParser called on their own: one call   *)
(* of _clean_sql_comments, _extract_balanced_parens, decompose_expression  *)
(* or _extract_derived_tables on a fresh instance.                         *)
(***************************************************************************)
\* the largest number of pieces of a text with comments
MaxPieces == 4

\* the largest length of a text with parentheses
MaxParens == 5

\* the numbers of subqueries in a select list: few, and as many as the
\* rounds of _extract_derived_tables or one more
SubqueryCounts == {0, 1, 2, max_iterations - 1, max_iterations, max_iterations + 1}

\* the number of calls of a helper method on an instance
MaxHelperCalls == 1

RECURSIVE Texts(_, _)
\* the texts made of at most n of the pieces
Texts(pieces, n) ==
  IF n = 0 THEN {""}
  ELSE LET shorter == Texts(pieces, n - 1)
       IN shorter \cup {text \o piece : text \in shorter, piece \in pieces}

\* comment markers, quotes, a newline and other characters
CommentPieces == {"/*", "*/", "--", "'", "\"", "\n", "a", "/", "*"}

CommentTexts == Texts(CommentPieces, MaxPieces)

ParenPieces == {"(", ")", "'", "\"", "a"}

ParenTexts == Texts(ParenPieces, MaxParens)

\* an expression of a select list with the column references written in it:
\* starts_with_case, calls and operators say whether the text starts with
\* CASE, holds a whitelisted function call, and holds an operator; atom is
\* what a text without any of them is
BareWord(column) ==
  [text |-> column, refs |-> {<<None, column>>}, starts_with_case |-> FALSE,
   calls |-> FALSE, operators |-> FALSE, atom |-> "COLUMN"]

QualifiedRef(table, column) ==
  [text |-> table \o "." \o column, refs |-> {<<table, column>>},
   starts_with_case |-> FALSE, calls |-> FALSE, operators |-> FALSE, atom |-> "COLUMN"]

LiteralOf(value) ==
  [text |-> value, refs |-> {}, starts_with_case |-> FALSE, calls |-> FALSE,
   operators |-> FALSE, atom |-> "LITERAL"]

SumOf(l, r) ==
  [text |-> l.text \o " + " \o r.text, refs |-> l.refs \cup r.refs,
   starts_with_case |-> l.starts_with_case, calls |-> l.calls \/ r.calls,
   operators |-> TRUE, atom |-> None]

IsNullOf(l, r) ==
  [text |-> "ISNULL(" \o l.text \o ", " \o r.text \o ")", refs |-> l.refs \cup r.refs,
   starts_with_case |-> FALSE, calls |-> TRUE, operators |-> l.operators \/ r.operators,
   atom |-> None]

SubstringOf(e) ==
  [text |-> "SUBSTRING(" \o e.text \o ", 1, 2)", refs |-> e.refs,
   starts_with_case |-> FALSE, calls |-> TRUE, operators |-> e.operators, atom |-> None]

CastOf(e) ==
  [text |-> "CAST(" \o e.text \o " AS INT)", refs |-> e.refs,
   starts_with_case |-> FALSE, calls |-> TRUE, operators |-> e.operators, atom |-> None]

CaseOf(c, t, e) ==
  [text |-> "CASE WHEN " \o c.text \o " > 0 THEN " \o t.text \o " ELSE " \o e.text \o " END",
   refs |-> c.refs \cup t.refs \cup e.refs, starts_with_case |-> TRUE,
   calls |-> c.calls \/ t.calls \/ e.calls, operators |-> TRUE, atom |-> None]

Atoms == {BareWord("A"), BareWord("B"), QualifiedRef("T", "B"), LiteralOf("0")}

\* the expressions with one operator, call or CASE around the inner ones
Around(outer, inner) ==
  {SumOf(l, r) : l \in outer, r \in inner}
    \cup {IsNullOf(l, r) : l \in inner, r \in outer}
    \cup {SubstringOf(e) : e \in inner}
    \cup {CastOf(e) : e \in inner}
    \cup {CaseOf(e, BareWord("A"), LiteralOf("0")) : e \in inner}

Expressions ==
  Atoms \cup Around(Atoms, Atoms) \cup Around({BareWord("A")}, Around(Atoms, Atoms))

\* the alias bindings decompose_expression is called with
ContextTables == { <<>>, <<<<"T", "T1">>>> }

\* a select list of n scalar subqueries
ScalarSubqueries(n) ==
  "SELECT " \o JoinStr([k \in 1..n |-> "(SELECT 1)"], ", ") \o " FROM T"

\* statements with derived tables, nested and side by side
DerivedStatements ==
  { "SELECT X FROM T1",
    "SELECT D.X FROM (SELECT X FROM T1) D",
    "SELECT D.X FROM ( SELECT X FROM T1 ) AS D WHERE D.X > 0",
    "SELECT D.X, E.Y FROM (SELECT X FROM T1) D JOIN (SELECT Y FROM T2) E ON D.X = E.Y",
    "SELECT D.X FROM (SELECT E.X FROM (SELECT X FROM T1) E) D",
    "SELECT X FROM T1 WHERE X IN (SELECT Y FROM T2)",
    "SELECT X, (SELECT MAX(Y) FROM T2) AS M FROM (SELECT X FROM T1) D",
    "SELECT X FROM (SELECT X FROM T1" }

SubqueryStatements ==
  {ScalarSubqueries(n) : n \in SubqueryCounts} \cup DerivedStatements

\* one call of _clean_sql_comments (sql_parser.py 33-103)
CleanSqlComments ==
  /\ Len(sql_calls) < MaxHelperCalls
  /\ \E sql \in CommentTexts :
       sql_calls' = Append(sql_calls, [method |-> "_clean_sql_comments",
                                       sql |-> sql,
                                       result |-> _clean_sql_comments(sql)])
  /\ UNCHANGED <<hash_seed, parse_cache, lineage_vars>>

\* one call of _extract_balanced_parens (sql_parser.py 105-142)
ExtractBalancedParens ==
  /\ Len(sql_calls) < MaxHelperCalls
  /\ \E sql \in ParenTexts : \E start_pos \in 0..Len(sql) :
       sql_calls' = Append(sql_calls, [method |-> "_extract_balanced_parens",
                                       sql |-> sql,
                                       start_pos |-> start_pos,
                                       result |-> _extract_balanced_parens(sql, start_pos)])
  /\ UNCHANGED <<hash_seed, parse_cache, lineage_vars>>

\* one call of decompose_expression (sql_parser.py 195-303)
DecomposeExpression ==
  /\ Len(sql_calls) < MaxHelperCalls
  /\ \E e \in Expressions : \E context_tables \in ContextTables :
       sql_calls' = Append(sql_calls, [method |-> "decompose_expression",
                                       expr |-> e,
                                       context_tables |-> context_tables,
                                       result |-> decompose_expression(e.text, context_tables)])
  /\ UNCHANGED <<hash_seed, parse_cache, lineage_vars>>

\* one call of _extract_derived_tables (sql_parser.py 497-554)
ExtractDerivedTables ==
  /\ Len(sql_calls) < MaxHelperCalls
  /\ \E sql \in SubqueryStatements :
       \E returned \in {_extract_derived_tables(sql, parse_cache)} :
          /\ parse_cache' = returned.cache
          /\ sql_calls' = Append(sql_calls, [method |-> "_extract_derived_tables",
                                             sql |-> sql,
                                             result |-> <<returned.derived_mappings,
                                                          returned.masked_sql>>,
                                             iteration |-> returned.iteration])
  /\ UNCHANGED <<hash_seed, lineage_vars>>

NextText ==
  \/ CleanSqlComments
  \/ ExtractBalancedParens
  \/ DecomposeExpression
  \/ ExtractDerivedTables

SpecText == InitSQL /\ [][NextText]_vars

(***************************************************************************)
(* Properties of the traversal.  Vocabulary: the edge relation of a task,  *)
(* its cycles, and the components a cycle holds back.                      *)
(***************************************************************************)
EdgeSet(task) == Range(Edges(task))

Preds(task, cid) == {e[1] : e \in {x \in EdgeSet(task) : x[2] = cid}}

Succs(es, S) == {e[2] : e \in {x \in es : x[1] \in S}}

RECURSIVE Closure(_, _)
\* S with everything reachable from it along the edges es
Closure(es, S) ==
  IF Succs(es, S) \subseteq S THEN S ELSE Closure(es, S \cup Succs(es, S))

\* the components reachable from cid along one edge or more
Descendants(task, cid) == Closure(EdgeSet(task), Succs(EdgeSet(task), {cid}))

OnCycle(task, cid) == cid \in Descendants(task, cid)

CycleMembers(task) ==
  LET es == EdgeSet(task)
  IN {d \in Range(CompIds(task)) : d \in Closure(es, Succs(es, {d}))}

Cyclic(task) == CycleMembers(task) # {}

\* on a cycle, or reachable from a component on a cycle
HeldBack(task) == Closure(EdgeSet(task), CycleMembers(task))

HasParallelPaths(task) ==
  \E i, j \in DOMAIN Edges(task) : i # j /\ Edges(task)[i] = Edges(task)[j]

Occurrences(s, x) == Cardinality({i \in DOMAIN s : s[i] = x})

\* the while loop of the current task has run to its exit
LoopDone == pc = "while" /\ queue = <<>>

\* C1: in a task without a cycle no component is dequeued twice; every
\* iteration of the while loop dequeues one component and the number of
\* iterations never exceeds the number of components, so the loop ends; and
\* at its exit the queue is empty and every component of the task has been
\* dequeued and processed exactly once - also when two paths join the same
\* pair of components.
C1_VisitedOnce ==
  /\ [](pc = "while" /\ ~Cyclic(CurrentTask) =>
          /\ \A cid \in Range(CompIds(CurrentTask)) : Occurrences(processed, cid) <= 1
          /\ processed_count = Len(processed)
          /\ processed_count <= Len(CurrentTask.comps))
  /\ [](LoopDone /\ ~Cyclic(CurrentTask) =>
          /\ \A cid \in Range(CompIds(CurrentTask)) : Occurrences(processed, cid) = 1
          /\ processed_count = Len(CurrentTask.comps))
  /\ [][pc = "while" /\ pc' = "while" => processed_count' = processed_count + 1]_vars

C1_Witness ==
  /\ LoopDone
  /\ CurrentTask.name = "DFT Main"
  /\ ~Cyclic(CurrentTask)
  /\ HasParallelPaths(CurrentTask)
  /\ Len(processed) = 5
  /\ Cardinality(EdgeSet(CurrentTask)) = 3

\* the lineage ids a component records when it is processed
RecordedIds(task, cid) ==
  DOMAIN ProcessedLineage(CompOf(task, cid), SourceConfigMap(package, task.name), EmptyMap)

\* C2: in a task without a cycle every predecessor of a dequeued component
\* was processed before it, and the lineage ids the predecessors of the
\* component about to be dequeued record are in lineage_id_map.
C2_PredecessorsFirst ==
  (pc = "while" /\ ~Cyclic(CurrentTask)) =>
     /\ \A i \in DOMAIN processed :
           Preds(CurrentTask, processed[i]) \subseteq {processed[j] : j \in 1..(i-1)}
     /\ \A i \in DOMAIN queue :
           \A p \in Preds(CurrentTask, queue[i]) :
              /\ p \in Range(processed)
              /\ RecordedIds(CurrentTask, p) \subseteq DOMAIN lineage_id_map

C2_Witness ==
  /\ pc = "while"
  /\ ~Cyclic(CurrentTask)
  /\ queue # <<>>
  /\ Head(queue) = "Main\\D"
  /\ Preds(CurrentTask, "Main\\D") = {"Main\\S1", "Main\\K"}
  /\ {"L2", "L7"} \subseteq DOMAIN lineage_id_map

CyclicTasks(pkg) == {k \in DOMAIN pkg : Cyclic(pkg[k])}

\* C3: when get_column_lineage has returned from a package that has a task
\* with a cycle, an error has been reported.
C3_CycleReported ==
  (pc = "returned" /\ ~GetDataflowSourcesRaises(package) /\ CyclicTasks(package) # {})
     => errors # <<>>

\* the rows the task of index k has emitted so far
RowsOfTask(rows, k) ==
  LET idx == SeqOfIdx({i \in DOMAIN rows : row_dft[i] = k})
  IN [j \in DOMAIN idx |-> rows[idx[j]]]

NameOf(task, cid) == CompOf(task, cid).name

\* C4: the components on a cycle, and those reachable from one, keep a
\* positive in-degree and are never queued or dequeued; the loop of a task
\* with a cycle ends after fewer iterations than the task has components;
\* and no row names a held-back destination of its task.
C4_CycleHeldBack ==
  /\ pc = "while" =>
        /\ \A c \in HeldBack(CurrentTask) :
              /\ in_degree[c] > 0
              /\ c \notin Range(queue)
              /\ c \notin Range(processed)
        /\ Cyclic(CurrentTask) => processed_count < Len(CurrentTask.comps)
  /\ \A k \in DOMAIN package :
        LET held == {NameOf(package[k], c) : c \in HeldBack(package[k])}
        IN \A i \in DOMAIN lineage_results :
              row_dft[i] = k => lineage_results[i].DestinationComponent \notin held

C4_Witness ==
  /\ LoopDone
  /\ CurrentTask.name = "DFT Main"
  /\ HeldBack(CurrentTask) = {"Main\\X", "Main\\K", "Main\\D"}
  /\ ~OnCycle(CurrentTask, "Main\\D")
  /\ processed = <<"Main\\S1", "Main\\S2">>

WithoutCyclic(pkg) == SelectSeq(pkg, LAMBDA t : ~Cyclic(t))

\* the rows of the tasks without a cycle, in the order returned
AcyclicRows(rows) ==
  LET idx == SeqOfIdx({i \in DOMAIN rows : row_dft[i] \notin CyclicTasks(package)})
  IN [j \in DOMAIN idx |-> rows[idx[j]]]

\* C5: what get_column_lineage returns for the tasks without a cycle of a
\* package that has a task with a cycle is what it returns for the package
\* from which the tasks with a cycle are removed.
C5_SiblingsUnaffected ==
  (pc = "returned" /\ CyclicTasks(package) # {}) =>
     AcyclicRows(result) = get_column_lineage(WithoutCyclic(package))

C5_Witness ==
  /\ pc = "returned"
  /\ Len(package) = 2
  /\ package[1].name = "DFT Side"
  /\ Cyclic(package[2])
  /\ Len(RowsOfTask(result, 1)) = 2
  /\ Len(RowsOfTask(result, 2)) > 0

\* the copy of an upstream entry that a derived column keeps for dependency d
DerivedCopy(e, d) == [e EXCEPT !.Logic = @ \o " -> Derived(" \o d \o ")"]

\* the lineage id of the input column a dependency names
DepInputId(comp, d) == DepLineageId(InputNameMap(comp), d)

\* the dependencies of a derived column whose input column has a recorded id
ResolvableDeps(comp, out_col) ==
  SelectSeq(ColDeps(out_col.expr),
            LAMBDA d : ~IsFalsy(DepInputId(comp, d))
                       /\ DepInputId(comp, d) \in DOMAIN lineage_id_map)

Before(s, a, b) == \E i, j \in DOMAIN s : i < j /\ s[i] = a /\ s[j] = b

\* the rows the current task has emitted for one destination column
RowsInto(dest, column) ==
  SelectSeq(RowsOfTask(lineage_results, dft),
            LAMBDA r : r.DestinationComponent = dest /\ r.DestinationColumn = column)

\* C6: once the derived column component X of "DFT Main" is processed, the
\* list of each of its new lineage ids with a resolvable dependency holds
\* one breadcrumb-tagged copy of every upstream entry of every resolvable
\* dependency and nothing else; and the destination processed after X emits
\* exactly two rows for the column computed as [A]+[B2], one from column A
\* of S1 and one from column b2 of S2.
C6_FanIn ==
  /\ (pc = "while" /\ CurrentTask.name = "DFT Main" /\ "Main\\X" \in Range(processed)) =>
        \A n \in DOMAIN OutputColumnItems(MainX) :
           LET col  == OutputColumnItems(MainX)[n].col
               deps == ResolvableDeps(MainX, col)
               list == lineage_id_map[col.lineageId]
           IN deps # <<>> =>
                /\ Len(list) =
                     Len(FlatMap(LAMBDA d : lineage_id_map[DepInputId(MainX, d)], deps))
                /\ \A k \in DOMAIN deps :
                      \A e \in Range(lineage_id_map[DepInputId(MainX, deps[k])]) :
                         Occurrences(list, DerivedCopy(e, deps[k])) = 1
  /\ (pc = "while" /\ CurrentTask.name = "DFT Main"
        /\ Before(processed, "Main\\X", "Main\\D")) =>
        LET rows == RowsInto("D", "AB_OUT")
        IN /\ Len(rows) = 2
           /\ {<<rows[i].gOrigin, rows[i].SourceTable, rows[i].OriginalColumn>> :
                 i \in DOMAIN rows}
                = { << <<"Main\\S1", "A">>, "T1", "COLA" >>,
                    << <<"Main\\S2", "b2">>, "T2", "COLB" >> }

C6_Witness ==
  /\ LoopDone
  /\ CurrentTask.name = "DFT Main"
  /\ {<<"Main\\S1", "Main\\X">>, <<"Main\\S2", "Main\\X">>, <<"Main\\X", "Main\\D">>}
        = EdgeSet(CurrentTask)
  /\ Before(processed, "Main\\X", "Main\\D")
  /\ Len(lineage_id_map["L5"]) = 2
  /\ Len(lineage_id_map["L6"]) = 1
  /\ Len(RowsInto("D", "AB_OUT")) = 2

\* the columns a source projects (literals and expressions apart) that are
\* the origin of no row
ColumnsWithoutRow(src, rows) ==
  {c.OriginalColumn :
     c \in {x \in Range(src.OutputColumns) :
              /\ ~IsFalsy(x.OriginalColumn)
              /\ x.OriginalColumn # "N/A"
              /\ x.SourceTable \notin ExpressionTables
              /\ ~\E i \in DOMAIN rows : rows[i].gOrigin = <<src.gCid, x.ColumnAlias>>}}

\* the columns get_unused_columns reported for a source component
ReportedUnused(cid) ==
  UNION {unused_report[j].UnusedColumns :
           j \in {i \in DOMAIN unused_report : unused_report[i].gCid = cid}}

\* C7: for every source component, get_unused_columns reports exactly the
\* projected columns that are the origin of no row: a column that reaches a
\* destination is never reported, one that reaches none always is.
C7_UnusedExact ==
  pc = "reported" =>
     \A i \in DOMAIN get_dataflow_sources(package) :
        ReportedUnused(get_dataflow_sources(package)[i].gCid)
          = ColumnsWithoutRow(get_dataflow_sources(package)[i], result)

(***************************************************************************)
(* Properties of the lineage map within one task                           *)
(***************************************************************************)
\* the step is an iteration of the while loop of the current task
LoopStep == pc = "while" /\ pc' = "while"

\* the component the iteration dequeues
Dequeued == CompOf(CurrentTask, Head(queue))

\* C13: once lineage_id_map[lid] is set during the propagation of a task, no
\* later iteration of the while loop of that task removes or changes it,
\* whatever kind of component the iteration processes (a transformation
\* re-exposing the id, a Source or Lookup, a transformation that copies the
\* entries to a new id and tags the copies).
C13_RecordedListsKept ==
  [][LoopStep =>
       \A lid \in DOMAIN lineage_id_map :
          /\ lid \in DOMAIN lineage_id_map'
          /\ lineage_id_map'[lid] = lineage_id_map[lid]]_vars

\* the same statement for the iterations that process neither a Source nor
\* a Lookup
C13_TransformsKeepLists ==
  [][(LoopStep /\ ~IsSourceClass(Dequeued.cls)) =>
       \A lid \in DOMAIN lineage_id_map :
          /\ lid \in DOMAIN lineage_id_map'
          /\ lineage_id_map'[lid] = lineage_id_map[lid]]_vars

\* C14: the iteration that processes a Destination leaves lineage_id_map as
\* it was, whatever outputs (an error output with columns carrying lineage
\* ids) the Destination declares.
C14_DestinationAddsNoId ==
  [][(LoopStep /\ ClassHas(Dequeued.cls, "Destination")) =>
       lineage_id_map' = lineage_id_map]_vars

(***************************************************************************)
(* Properties of the rows                                                  *)
(***************************************************************************)
\* the rows the step appends
AppendedRows == SubSeq(lineage_results', Len(lineage_results) + 1, Len(lineage_results'))

\* C15: lineage_results only grows, and only in an iteration that processes
\* a Destination; in such an iteration, for every input column of the
\* Destination whose lineage id is in lineage_id_map, the rows appended for
\* that column are as many as the entries of the list of the id, and the
\* i-th of them carries the source component, table and column of the i-th
\* entry.
C15_RowsAtDestinationsOnly ==
  [][/\ Len(lineage_results') >= Len(lineage_results)
     /\ SubSeq(lineage_results', 1, Len(lineage_results)) = lineage_results
     /\ lineage_results' # lineage_results =>
          LoopStep /\ ClassHas(Dequeued.cls, "Destination")
     /\ (LoopStep /\ ClassHas(Dequeued.cls, "Destination")) =>
          \A in_col \in Range(InputColumns(Dequeued)) :
             in_col.lineageId \in DOMAIN lineage_id_map' =>
               LET list == lineage_id_map'[in_col.lineageId]
                   mine == SelectSeq(AppendedRows,
                                     LAMBDA r : r.DestinationColumn = TargetColumn(in_col))
               IN /\ Len(mine) = Len(list)
                  /\ \A i \in DOMAIN list :
                        /\ mine[i].SourceComponent = list[i].SourceComponent
                        /\ mine[i].SourceTable = list[i].SourceTable
                        /\ mine[i].OriginalColumn = list[i].OriginalColumn
                        /\ mine[i].DestinationComponent = Dequeued.name]_vars

\* the destination of "DFT Rules" has been processed and has emitted two
\* rows for the column A_AGG, whose id has two upstream origins
C15_Witness ==
  /\ pc = "while"
  /\ CurrentTask.name = "DFT Rules"
  /\ "Rules\\RD" \in Range(processed)
  /\ Len(lineage_id_map["L21"]) = 2
  /\ Len(RowsInto("RD", "A_AGG")) = 2
  /\ Len(RowsInto("RD", "RATE")) = 1

(***************************************************************************)
(* Properties of the transfer rules                                        *)
(***************************************************************************)
\* the output columns of the dequeued component whose id is not recorded
\* when the iteration starts
NewItems ==
  SelectSeq(OutputColumnItems(Dequeued),
            LAMBDA item : ~IsFalsy(item.col.lineageId)
                          /\ item.col.lineageId \notin DOMAIN lineage_id_map)

\* the entries recorded for the k-th column of the inputs of comp that have
\* a k-th column with a recorded id
UnionContributions(comp, k, lmap) ==
  UNION { Range(lmap[inp.cols[k].lineageId]) :
            inp \in {i \in Range(comp.inputs) :
                       k <= Len(i.cols) /\ i.cols[k].lineageId \in DOMAIN lmap} }

\* C16: when a UnionAll component is processed, the list of its new output
\* id at position k has exactly the (source table, original column) keys of
\* the entries recorded for the k-th column of its inputs, each key once,
\* and every entry of the list is an upstream entry with the breadcrumb of
\* the union appended; an input with fewer columns or with an unrecorded id
\* contributes nothing.
C16_UnionAllRule ==
  [][(LoopStep /\ ClassHas(Dequeued.cls, "UnionAll")) =>
       \A n \in DOMAIN NewItems :
          LET list == lineage_id_map'[NewItems[n].col.lineageId]
              up   == UnionContributions(Dequeued, NewItems[n].idx, lineage_id_map)
          IN /\ {SourceKey(e) : e \in Range(list)} = {SourceKey(u) : u \in up}
             /\ \A i, j \in DOMAIN list : SourceKey(list[i]) = SourceKey(list[j]) => i = j
             /\ \A e \in Range(list) :
                   \E u \in up :
                      e = [u EXCEPT !.Logic = @ \o " -> Union(" \o Dequeued.name \o ")"]]_vars

\* the union of "DFT Rules" is processed: its first column has three
\* recorded inputs, two of them with the same key, and one unrecorded
\* input; its second column has an input without a second column
C16_Witness ==
  /\ pc = "while"
  /\ CurrentTask.name = "DFT Rules"
  /\ "Rules\\U" \in Range(processed)
  /\ {"L1", "L3", "L4"} \subseteq DOMAIN lineage_id_map
  /\ "L99" \notin DOMAIN lineage_id_map
  /\ SourceKey(lineage_id_map["L1"][1]) = SourceKey(lineage_id_map["L4"][1])
  /\ Len(lineage_id_map["L11"]) = 2
  /\ Len(lineage_id_map["L12"]) = 2

\* every dependency of the expression is a variable reference, and there is one
OnlyVariables(expr) ==
  Deps(expr) # <<>> /\ \A d \in Range(Deps(expr)) : HasNamespace(d)

\* the dependencies without '::' that name an input column of comp whose id
\* is recorded
ResolvedColumns(comp, out_col) ==
  SelectSeq(Deps(out_col.expr),
            LAMBDA d : /\ ~HasNamespace(d)
                       /\ ~IsFalsy(DepInputId(comp, d))
                       /\ DepInputId(comp, d) \in DOMAIN lineage_id_map)

Producer(task, inp) ==
  IF IsFalsy(UpstreamOutputId(task, inp.id)) THEN None
  ELSE OutputOwner(task, UpstreamOutputId(task, inp.id))

\* the source_info built from the component cid, <<>> when there is none
ConfigsOf(cid) ==
  SelectSeq(get_dataflow_sources(package), LAMBDA src : src.gCid = cid)

\* the output columns of a source_info whose alias is the target column in
\* some case
AliasMatches(cfg, target) ==
  SelectSeq(cfg.OutputColumns, LAMBDA c : Upper(c.ColumnAlias) = Upper(target))

ReadsWholeTable(cfg) == cfg.TableView # "N/A" /\ cfg.SQLQuery = "N/A"

\* C18: when a Destination is processed, an input column whose lineage id
\* is not in lineage_id_map gets: one row tagged 'Name Match', with the
\* table and column of the matching source column, when the producer of the
\* first path ending at its input is a Source or Lookup with a column whose
\* alias equals the target column case-insensitively; else one row tagged
\* 'Inferred (Stale Package)' with the target column as origin when that
\* Source or Lookup reads a whole table without SQL; else no row.
C18_DestinationFallback ==
  [][(LoopStep /\ ClassHas(Dequeued.cls, "Destination")) =>
       \A x \in DOMAIN Dequeued.inputs :
          \A y \in DOMAIN Dequeued.inputs[x].cols :
             LET inp    == Dequeued.inputs[x]
                 in_col == inp.cols[y]
                 target == TargetColumn(in_col)
                 mine   == SelectSeq(AppendedRows, LAMBDA r : r.DestinationColumn = target)
                 up     == Producer(CurrentTask, inp)
                 cfgs   == IF up = None THEN <<>> ELSE ConfigsOf(up)
             IN in_col.lineageId \notin DOMAIN lineage_id_map' =>
                  IF cfgs # <<>> /\ AliasMatches(cfgs[1], target) # <<>>
                  THEN /\ Len(mine) = 1
                       /\ mine[1].SourceComponent = cfgs[1].ComponentName
                       /\ mine[1].SourceTable = AliasMatches(cfgs[1], target)[1].SourceTable
                       /\ mine[1].OriginalColumn = AliasMatches(cfgs[1], target)[1].OriginalColumn
                       /\ mine[1].Logic = AliasMatches(cfgs[1], target)[1].Logic \o " (Name Match)"
                  ELSE IF cfgs # <<>> /\ ReadsWholeTable(cfgs[1])
                  THEN /\ Len(mine) = 1
                       /\ mine[1].SourceComponent = cfgs[1].ComponentName
                       /\ mine[1].SourceTable = cfgs[1].TableView
                       /\ mine[1].OriginalColumn = target
                       /\ mine[1].Logic = "Inferred (Stale Package)"
                  ELSE mine = <<>>]_vars

\* "DFT Rules" and then "DFT Side" are propagated: the destination of the
\* first has emitted a 'Name Match' row for its column a (the lookup that
\* feeds it projects A) and no row for its column NOPE; the destination of
\* the second has emitted an 'Inferred (Stale Package)' row for its column
\* B, fed by a table source without a column B
C18_Witness ==
  /\ pc = "while"
  /\ dft = 2
  /\ package[1].name = "DFT Rules"
  /\ CurrentTask.name = "DFT Side"
  /\ "Side\\D" \in Range(processed)
  /\ "L2" \notin DOMAIN lineage_id_map
  /\ LET rules == SelectSeq(RowsOfTask(lineage_results, 1),
                            LAMBDA r : r.DestinationComponent = "RD")
     IN /\ \E i \in DOMAIN rules :
              /\ rules[i].DestinationColumn = "a"
              /\ rules[i].Logic = "COLA AS A (Name Match)"
        /\ \A i \in DOMAIN rules : rules[i].DestinationColumn # "NOPE"
  /\ Len(RowsInto("D2", "B")) = 1
  /\ RowsInto("D2", "B")[1].Logic = "Inferred (Stale Package)"

(***************************************************************************)
(* Properties of the package: the tasks are independent                    *)
(***************************************************************************)
Reverse(s) == [i \in DOMAIN s |-> s[Len(s) + 1 - i]]

\* the lineage ids the components of the task declare on output columns
DeclaredIds(task, cids) ==
  UNION { {OutputColumnItems(CompOf(task, cid))[n].col.lineageId :
             n \in DOMAIN OutputColumnItems(CompOf(task, cid))} : cid \in cids }

\* C19: the while loop of every task starts on an empty lineage map and the
\* map only ever holds ids declared by the components of the current task
\* processed so far; when get_column_lineage has returned without a raise,
\* the rows of each task are the rows the task yields as the only task of a
\* package (equal ids in another task change nothing); and the set of rows
\* returned is the set returned for the package with its tasks in the
\* opposite order.
C19_TasksIndependent ==
  /\ (pc = "while" /\ processed = <<>>) => lineage_id_map = EmptyMap
  /\ pc = "while" =>
       DOMAIN lineage_id_map \subseteq DeclaredIds(CurrentTask, Range(processed))
  /\ (pc \in {"returned", "reported"} /\ errors = <<>>) =>
       \A k \in DOMAIN package :
          RowsOfTask(result, k) = get_column_lineage(<<package[k]>>)
  /\ pc \in {"returned", "reported", "raised"} =>
       Range(result) = Range(get_column_lineage(Reverse(package)))

\* get_column_lineage has returned for a package of two tasks, "DFT Side"
\* first, that both declare the id L1: each has a row of its own origin
C19_Witness ==
  /\ pc = "returned"
  /\ Len(package) = 2
  /\ package[1].name = "DFT Side"
  /\ package[2].name = "DFT Rules"
  /\ "L1" \in DeclaredIds(package[1], Range(CompIds(package[1])))
             \cap DeclaredIds(package[2], Range(CompIds(package[2])))
  /\ \E i \in DOMAIN result : result[i].gOrigin = <<"Side\\S1", "colc">> /\ row_dft[i] = 1
  /\ \E i \in DOMAIN result : result[i].gOrigin = <<"Rules\\RS1", "A">> /\ row_dft[i] = 2

(***************************************************************************)
(* Properties of the name-keyed pass-through                               *)
(***************************************************************************)
IsNameKeyed(cls) ==
  ClassHas(cls, "MergeJoin") \/ ClassHas(cls, "Sort") \/ ClassHas(cls, "Aggregate")

\* the ids of the input columns of comp whose name or cachedName is the
\* given name as written; when there is none, of those whose name or
\* cachedName is the given name in another case
MatchedInputIds(comp, name) ==
  LET cols  == Range(InputColumns(comp))
      exact == {c \in cols : c.name = name \/ c.cachedName = name}
      loose == {c \in cols : (c.name # None /\ Upper(c.name) = Upper(name))
                             \/ (c.cachedName # None /\ Upper(c.cachedName) = Upper(name))}
  IN {c.lineageId : c \in IF exact # {} THEN exact ELSE loose}

\* C20: when a MergeJoin, Sort or Aggregate component is processed, a new
\* output id whose column name matches input columns (name or cachedName,
\* as written, else case-insensitively) with recorded ids gets the list of
\* a matched input id, entries unchanged; a new output id whose name matches
\* no input column, or only input columns with unrecorded ids, gets exactly
\* one entry synthesized for the component with source table
\* 'Transformation'.
C20_NameKeyedPassThrough ==
  [][(LoopStep /\ IsNameKeyed(Dequeued.cls)) =>
       \A n \in DOMAIN NewItems :
          LET col  == NewItems[n].col
              list == lineage_id_map'[col.lineageId]
              ids  == MatchedInputIds(Dequeued, col.name)
          IN /\ (ids # {} /\ ids \subseteq DOMAIN lineage_id_map) =>
                  \E m \in ids : list = lineage_id_map[m]
             /\ ids \cap DOMAIN lineage_id_map = {} =>
                  /\ Len(list) = 1
                  /\ list[1].SourceComponent = Dequeued.name
                  /\ list[1].SourceTable = "Transformation"
                  /\ list[1].OriginalColumn = col.name
                  /\ list[1].gOrigin = <<>>]_vars

\* the aggregate of "DFT Rules" is processed: its outputs A (an input name),
\* A1 (an input cachedName) and b (the cachedName B in another case) have
\* the lists of the matched inputs; TOTAL (no input of that name) and GONE
\* (an input whose id is not recorded) have the placeholder
C20_Witness ==
  /\ pc = "while"
  /\ CurrentTask.name = "DFT Rules"
  /\ "Rules\\G" \in Range(processed)
  /\ "L98" \notin DOMAIN lineage_id_map
  /\ lineage_id_map["L21"] = lineage_id_map["L11"]
  /\ lineage_id_map["L22"] = lineage_id_map["L11"]
  /\ lineage_id_map["L23"] = lineage_id_map["L12"]
  /\ Len(lineage_id_map["L11"]) = 2
  /\ lineage_id_map["L24"][1].SourceTable = "Transformation"
  /\ lineage_id_map["L25"][1].SourceTable = "Transformation"

(***************************************************************************)
(* Properties of the data conversion                                       *)
(***************************************************************************)
\* C21: when a data-conversion component is processed, the list of a new
\* output id whose SourceInputColumnLineageID, the '#{ }' wrapper stripped,
\* names a recorded id is the list of that id, entry by entry, each entry
\* unchanged but for the breadcrumb ' -> Conv(<dataType of the output
\* column>)' appended to its logic.
C21_DataConversionRule ==
  [][(LoopStep /\ ClassHas(Dequeued.cls, "DataConvert")) =>
       \A n \in DOMAIN NewItems :
          LET col  == NewItems[n].col
              ref  == IF IsFalsy(col.srcLid) THEN None ELSE StripLineageRef(col.srcLid)
              list == lineage_id_map'[col.lineageId]
          IN (ref # None /\ ref \in DOMAIN lineage_id_map) =>
                /\ Len(list) = Len(lineage_id_map[ref])
                /\ \A i \in DOMAIN list :
                      list[i] = [lineage_id_map[ref][i]
                                   EXCEPT !.Logic = @ \o " -> Conv(" \o col.dataType \o ")"]]_vars

\* the conversion of "DFT Conv" is processed: the output whose property is
\* '#{L1}' has the entry of L1 tagged with its type i4, the output whose
\* property is 'L2' the entry of L2 tagged with its type str
C21_Witness ==
  /\ pc = "while"
  /\ CurrentTask.name = "DFT Conv"
  /\ "Conv\\CV" \in Range(processed)
  /\ Len(lineage_id_map["L41"]) = 1
  /\ lineage_id_map["L41"][1].SourceTable = "T1"
  /\ lineage_id_map["L41"][1].OriginalColumn = "COLA"
  /\ lineage_id_map["L41"][1].Logic = "COLA AS A -> Conv(i4)"
  /\ lineage_id_map["L42"][1].Logic = "COLB AS B -> Conv(str)"

(***************************************************************************)
(* Properties of the lists of the lineage map                              *)
(***************************************************************************)
\* C29: every list stored in the lineage map during the propagation of a
\* task is non-empty.
C29_ListsNonEmpty ==
  pc = "while" => \A lid \in DOMAIN lineage_id_map : lineage_id_map[lid] # <<>>

(***************************************************************************)
(* Properties of the exception handler of get_column_lineage               *)
(***************************************************************************)
\* the step that is taken raises inside _trace_column_lineage_topology
Raising ==
  \/ pc = "for" /\ dft <= Len(package) /\ GetDataflowSourcesRaises(package)
  \/ /\ pc = "while"
     /\ queue # <<>>
     /\ ComponentRaises(CurrentTask, Dequeued,
                        SourceConfigMap(package, CurrentTask.name), lineage_id_map)

SameDict(d, e) == Range(d) = Range(e)

\* the calls of parse_sql_deep made so far on the statement
ParsesOf(statement) ==
  {k \in DOMAIN sql_calls :
     /\ sql_calls[k].method = "parse_sql_deep"
     /\ sql_calls[k].sql_query = statement}

\* the statements of the universe of a kind for which the first call and the
\* second call on the same text return the same column map
IdempotentOn(statements) ==
  (/\ Len(sql_calls) >= 2
   /\ sql_calls[1].method = "parse_sql_deep"
   /\ sql_calls[2].method = "parse_sql_deep"
   /\ sql_calls[1].sql_query = sql_calls[2].sql_query
   /\ sql_calls[1].sql_query \in statements)
  => SameDict(sql_calls[1].result, sql_calls[2].result)

\* C8: idempotence of parse_sql_deep.  When the first two calls on an
\* instance are parse_sql_deep on the same statement text (the first with a
\* cold cache, the second with a warm one), both return the same column map,
\* for every statement kind.
C8_Idempotent == IdempotentOn(Statements)

\* C8 for the statements shorter than the cache key
IdempotentWhenShort ==
  IdempotentOn({statement \in Statements : Len(statement) < CacheKeyLength})

\* C9: for a statement with exactly one FROM table and no CTE or derived
\* table, parse_sql_deep resolves every unqualified column of the select
\* list to that table: source_table is the table's name and source_column
\* the column.
C9_SingleTableResolves ==
  \A q \in SingleTableQueries : \A k \in ParsesOf(SelectFrom(q.columns, q.table)) :
    \A c \in Range(q.columns) :
      /\ DictHas(sql_calls[k].result, Upper(c))
      /\ DictGet(sql_calls[k].result, Upper(c)).source_table = Upper(q.table)
      /\ DictGet(sql_calls[k].result, Upper(c)).source_column = Upper(c)

\* the calls of extract_join_conditions made so far on the statement
JoinsOf(statement) ==
  {k \in DOMAIN sql_calls :
     /\ sql_calls[k].method = "extract_join_conditions"
     /\ sql_calls[k].sql_query = statement}

\* the one entry for the join of T1 a and T2 b on a.id=b.id
JoinEntry(entries, join_type) ==
  /\ Len(entries) = 1
  /\ entries[1].left_table = "T1"
  /\ entries[1].left_column = "ID"
  /\ entries[1].right_table = "T2"
  /\ entries[1].right_column = "ID"
  /\ entries[1].join_type = join_type

\* C10: for a statement joining T1 a and T2 b ON a.id=b.id,
\* extract_join_conditions returns one entry for the equality pair, each
\* side resolved to its table and column, with join type INNER when no
\* qualifier is written, also when the ON condition ends the statement.
C10_JoinExtracted ==
  \A q \in JoinQueries : \A k \in JoinsOf(JoinOn(q.qualifier, q.tail)) :
    JoinEntry(sql_calls[k].result, IF q.qualifier = "" THEN "INNER" ELSE "LEFT")

\* C10 for the statements with a clause after the ON condition
JoinExtractedBeforeClause ==
  \A q \in JoinQueries : \A k \in JoinsOf(JoinOn(q.qualifier, q.tail)) :
    q.tail # "" =>
      JoinEntry(sql_calls[k].result, IF q.qualifier = "" THEN "INNER" ELSE "LEFT")

\* the entry of alias in a column map is the column COL1 of table T
FromTableT(column_map, alias) ==
  /\ DictHas(column_map, alias)
  /\ DictGet(column_map, alias).source_table = "T"
  /\ DictGet(column_map, alias).source_column = "COL1"

\* C11: a qualified reference to a column of a CTE resolves to the physical
\* table and column the CTE column was projected from: WITH C AS (SELECT
\* col1 AS A FROM T) SELECT c.A FROM C c yields an entry A with source table
\* T and source column COL1.
C11_CteReferenceResolves ==
  \A q \in CteQueries : \A k \in ParsesOf(q.statement) :
    q.place = "main" => FromTableT(sql_calls[k].result, q.alias)

\* the statement of C11 has been resolved, first or after another statement
C11_Witness ==
  /\ Len(sql_calls) = 2
  /\ sql_calls[2].method = "parse_sql_deep"
  /\ sql_calls[2].sql_query = "WITH C AS (SELECT col1 AS A FROM T) SELECT c.A FROM C c"
  /\ DictKeys(sql_calls[2].result) = <<"A">>
  /\ DictGet(sql_calls[2].result, "A").source_table = "T"
  /\ DictGet(sql_calls[2].result, "A").expression_type = "COLUMN"

\* C12: for a top-level UNION the merged column map has exactly the first
\* branch's aliases, and the source table of an alias is the tables of the
\* alias over all branches, deduplicated, sorted and joined with commas:
\* SELECT x FROM T1 UNION SELECT x FROM T2 yields X with source table
\* "T1, T2".
C12_UnionMerged ==
  \A q \in UnionQueries : \A k \in ParsesOf(q.statement) :
    /\ Range(DictKeys(sql_calls[k].result)) = q.aliases
    /\ \A alias \in q.aliases :
         DictGet(sql_calls[k].result, alias).source_table = q.source_table

\* the first part of C12 alone: the aliases of the first branch
UnionAliases ==
  \A q \in UnionQueries : \A k \in ParsesOf(q.statement) :
    Range(DictKeys(sql_calls[k].result)) = q.aliases

\* C22: memoization is transparent.  Whatever was resolved before on the
\* instance, parse_sql_deep returns for a statement the column map a fresh
\* instance returns for it, also when two statements are the same in their
\* first 200 characters.
C22_MemoizationTransparent ==
  \A k \in DOMAIN sql_calls :
    sql_calls[k].method = "parse_sql_deep"
    => SameDict(sql_calls[k].result, parse_sql_deep(sql_calls[k].sql_query, <<>>).result)

\* C22 for the statements shorter than the cache key
TransparentWhenShort ==
  \A k \in DOMAIN sql_calls :
    (sql_calls[k].method = "parse_sql_deep" /\ Len(sql_calls[k].sql_query) < CacheKeyLength)
    => SameDict(sql_calls[k].result, parse_sql_deep(sql_calls[k].sql_query, <<>>).result)

C26_CteScopeWholeStatement ==
  \A q \in CteQueries : \A k \in ParsesOf(q.statement) :
    /\ DictHas(sql_calls[k].result, q.alias)
    /\ Contains(DictGet(sql_calls[k].result, q.alias).source_table, "T")
    /\ Contains(DictGet(sql_calls[k].result, q.alias).source_column, "COL1")

(***************************************************************************)
(* Properties of the helper methods, under SpecText.                       *)
(***************************************************************************)
\* the calls of a method made so far
CallsOf(method) == {call \in Range(sql_calls) : call.method = method}

RECURSIVE LiteralEnd(_, _, _)
\* the position after the quote that closes a literal opened by quote, read
\* from position i on; a doubled quote does not close it
LiteralEnd(sql, i, quote) ==
  IF i >= Len(sql) THEN Len(sql)
  ELSE IF At(sql, i) # quote THEN LiteralEnd(sql, i + 1, quote)
  ELSE IF At(sql, i + 1) = quote THEN LiteralEnd(sql, i + 2, quote)
  ELSE i + 1

RECURSIVE Unquoted(_, _)
\* the positions from i on that are outside quoted literals
Unquoted(sql, i) ==
  IF i >= Len(sql) THEN {}
  ELSE IF At(sql, i) \in {"'", "\""}
  THEN Unquoted(sql, LiteralEnd(sql, i + 1, At(sql, i)))
  ELSE {i} \cup Unquoted(sql, i + 1)

\* the parentheses opened and not closed in start_pos..j, outside literals
Balance(sql, start_pos, j) ==
  Cardinality({i \in Unquoted(sql, start_pos) : i <= j /\ At(sql, i) = "("})
    - Cardinality({i \in Unquoted(sql, start_pos) : i <= j /\ At(sql, i) = ")"})

\* the positions of the parenthesis that closes the one at start_pos: one
\* position, or none when the text is unbalanced
MatchingClose(sql, start_pos) ==
  {j \in Unquoted(sql, start_pos) :
     /\ Balance(sql, start_pos, j) = 0
     /\ \A i \in start_pos..(j - 1) : Balance(sql, start_pos, i) > 0}

\* C23: _extract_balanced_parens, given a text and the index of an opening
\* parenthesis, returns the content up to the matching close parenthesis,
\* parentheses inside quoted literals not counted, and the empty string when
\* no matching close parenthesis exists.
C23_BalancedOrEmpty ==
  \A call \in CallsOf("_extract_balanced_parens") :
    At(call.sql, call.start_pos) = "("
    => /\ \A close \in MatchingClose(call.sql, call.start_pos) :
            call.result[1] = Slice(call.sql, call.start_pos + 1, close)
       /\ MatchingClose(call.sql, call.start_pos) = {} => call.result[1] = ""

\* the first part of C23 alone: the content up to the matching close
BalancedContent ==
  \A call \in CallsOf("_extract_balanced_parens") :
    At(call.sql, call.start_pos) = "("
    => \A close \in MatchingClose(call.sql, call.start_pos) :
         call.result = <<Slice(call.sql, call.start_pos + 1, close), close>>

RECURSIVE BlockEnd(_, _, _)
\* the position after the close marker that matches the outermost open
\* marker of a block comment, read from position i on at the given depth
BlockEnd(sql, i, depth) ==
  IF depth = 0 THEN i
  ELSE IF i >= Len(sql) THEN Len(sql)
  ELSE IF Slice(sql, i, i + 2) = "/*" THEN BlockEnd(sql, i + 2, depth + 1)
  ELSE IF Slice(sql, i, i + 2) = "*/" THEN BlockEnd(sql, i + 2, depth - 1)
  ELSE BlockEnd(sql, i + 1, depth)

RECURSIVE Uncommented(_)
\* the text without its comments: a literal is copied whole, a block comment
\* dropped up to its matching close marker, a line comment up to the newline
Uncommented(sql) ==
  IF sql = "" THEN ""
  ELSE IF At(sql, 0) \in {"'", "\""}
  THEN Slice(sql, 0, LiteralEnd(sql, 1, At(sql, 0)))
         \o Uncommented(From(sql, LiteralEnd(sql, 1, At(sql, 0))))
  ELSE IF StartsWith(sql, "/*") THEN Uncommented(From(sql, BlockEnd(sql, 2, 1)))
  ELSE IF StartsWith(sql, "--")
  THEN IF Contains(sql, "\n") THEN Uncommented(From(sql, Find(sql, "\n", 0))) ELSE ""
  ELSE At(sql, 0) \o Uncommented(From(sql, 1))

\* C28: _clean_sql_comments returns its input with exactly the comments
\* removed: block comments with nesting, line comments up to but not
\* including the newline, and quoted strings, with their doubled quotes and
\* any comment markers in them, copied unchanged.
C28_CommentsRemoved ==
  \A call \in CallsOf("_clean_sql_comments") : call.result = Uncommented(call.sql)

\* a string that holds a block comment marker is kept, the line comment after
\* it removed
C28_Witness ==
  \E call \in CallsOf("_clean_sql_comments") :
    /\ call.sql = "'/*'--"
    /\ call.result = "'/*'"

\* the type the classification order gives an expression
ExpectedType(e) ==
  IF e.starts_with_case THEN "CASE"
  ELSE IF e.calls THEN "FUNCTION"
  ELSE IF e.operators THEN "ARITHMETIC"
  ELSE e.atom

\* C27: decompose_expression classifies in the order CASE, whitelisted
\* function call, arithmetic/concatenation, qualified reference, literal,
\* bare word, and the dependencies of every classification hold every
\* column reference written in the expression, also when a function call is
\* a part of a larger expression.
C27_EveryReferenceKept ==
  \A call \in CallsOf("decompose_expression") :
    /\ call.result.type = ExpectedType(call.expr)
    /\ call.expr.refs \subseteq Range(call.result.dependencies)

\* the first part of C27 alone: the classification order
ClassificationOrder ==
  \A call \in CallsOf("decompose_expression") :
    call.result.type = ExpectedType(call.expr)

\* C24: _extract_derived_tables terminates, and the masked text it returns
\* holds no '(SELECT', whatever the number of subqueries of the statement.
C24_EverySubqueryMasked ==
  \A call \in CallsOf("_extract_derived_tables") :
    /\ call.iteration <= max_iterations
    /\ ~Contains(call.result[2], "(SELECT")

\* the first part of C24 alone, and the masking of statements with at most
\* max_iterations subqueries
MaskedWithinRounds ==
  \A call \in CallsOf("_extract_derived_tables") :
    /\ call.iteration <= max_iterations
    /\ (\A n \in SubqueryCounts : n > max_iterations => call.sql # ScalarSubqueries(n))
       => ~Contains(call.result[2], "(SELECT")

====
